---- MODULE Spec2Model ----
(***************************************************************************)
(* The streaming conversation adapter of chat-cli's api_client:            *)
(*   - SendMessageOutputBedrock::recv, the Tool-Use Assembler that turns   *)
(*     Bedrock ConverseStream wire events into ChatResponseStream events   *)
(*     (send_message_output.rs);                                           *)
(*   - ApiClient::send_message, the dispatch of one request (mod.rs);      *)
(*   - classify_error_kind, the error classifier (mod.rs);                 *)
(*   - the Message Encoder: convert_to_bedrock_messages,                   *)
(*     convert_tools_to_bedrock and extract_system_prompt (bedrock.rs).    *)
(* Option<T> is modelled as a sequence of length at most one:              *)
(* None is <<>> and Some(x) is <<x>>.                                      *)
(***************************************************************************)
EXTENDS Integers, Sequences, FiniteSets, TLC

VARIABLES
    \* ---- one Bedrock stream handle (SendMessageOutputBedrock) ----
    wire,          \* history: the items output.stream.recv() has delivered so far
    current_tool,  \* Option<ToolUseState>
    metadata,      \* Option<ConverseStreamMetadataEvent>
    returned,      \* history: the values recv has returned, in call order
    returnedAt,    \* history: returnedAt[j] is the index in wire of the item that made returned[j]
    toolBefore,    \* history: toolBefore[i] is current_tool when wire[i] was taken
    \* ---- one ApiClient and its send_message calls ----
    mock_client,   \* Option of the queue of fixture responses not yet handed out
    dispatched,    \* history: Option of the request the last call handed to request.send()
    sendArgs,      \* history: Option of the arguments of the last send_message call
    sendResult,    \* history: Option of the value the last send_message call returned
    \* ---- one classify_error_kind call ----
    clsArgs,       \* the arguments of the call
    clsResult,     \* Option of the ConverseStreamErrorKind it returned
    \* ---- one call of an encoder function ----
    encArgs,       \* the function called and its arguments
    encResult,     \* Option of the value it returned
    encAgain,      \* Option of the value a second call with the same arguments returned
    \* ---- a second Bedrock stream handle, of another conversation ----
    wireB,         \* history: the items its output.stream.recv() has delivered so far
    current_toolB, \* its Option<ToolUseState>
    metadataB,     \* its Option<ConverseStreamMetadataEvent>
    returnedB,     \* history: the values its recv has returned, in call order
    \* ---- the mock backend shared by the clones of one ApiClient ----
    mock_json,     \* history: Option of the fixture set_mock_output was given
    mock_seeded,   \* history: Option of the queue set_mock_output built
    mock_lock,     \* the Mutex around the queue: None, or Some(caller) holding it
    caller         \* per caller: where it is in send_message, its output handle, its calls

vars == <<wire, current_tool, metadata, returned, returnedAt, toolBefore,
          mock_client, dispatched, sendArgs, sendResult, clsArgs, clsResult,
          encArgs, encResult, encAgain, wireB, current_toolB, metadataB, returnedB,
          mock_json, mock_seeded, mock_lock, caller>>

streamVars == <<wire, current_tool, metadata, returned, returnedAt, toolBefore>>
sendVars == <<mock_client, dispatched, sendArgs, sendResult>>
clsVars == <<clsArgs, clsResult>>
encVars == <<encArgs, encResult, encAgain>>
streamVarsB == <<wireB, current_toolB, metadataB, returnedB>>
mockVars == <<mock_json, mock_seeded, mock_lock, caller>>

None == <<>>
Some(x) == <<x>>
IsSome(o) == o # <<>>
Unwrap(o) == o[1]

----------------------------------------------------------------------------
(* Bounds of the model *)

\* the longest wire stream a stream handle is fed
MaxWire == 4

\* the most wire items two stream handles are fed together
MaxPairWire == 4

\* the most send_message calls the callers of one mock backend make together
MaxCalls == 3

\* the longest history and the longest tool list the encoder is given
MaxHistory == 2
MaxTools == 3

----------------------------------------------------------------------------
(* The wire: aws_sdk_bedrockruntime::types::ConverseStreamOutput items, as *)
(* delivered by output.stream.recv(): Ok(Some(event)), Ok(None) or Err(e). *)

Payload(variant, id, name, data) ==
    [variant |-> variant, tool_use_id |-> id, name |-> name, data |-> data]

\* ContentBlockStart whose start is Some(ContentBlockStart::ToolUse{tool_use_id, name})
CBStartTool(id, name) ==
    [kind |-> "ContentBlockStart", payload |-> Some(Payload("ToolUse", id, name, ""))]
\* ContentBlockStart whose start is Some of another variant
CBStartOther == [kind |-> "ContentBlockStart", payload |-> Some(Payload("Other", "", "", ""))]
\* ContentBlockStart whose start is None
CBStartNone == [kind |-> "ContentBlockStart", payload |-> None]
\* ContentBlockDelta whose delta is Some(ContentBlockDelta::Text(text))
CBDeltaText(text) ==
    [kind |-> "ContentBlockDelta", payload |-> Some(Payload("Text", "", "", text))]
\* ContentBlockDelta whose delta is Some(ContentBlockDelta::ToolUse{input})
CBDeltaTool(input) ==
    [kind |-> "ContentBlockDelta", payload |-> Some(Payload("ToolUse", "", "", input))]
\* ContentBlockDelta whose delta is Some of another variant
CBDeltaOther == [kind |-> "ContentBlockDelta", payload |-> Some(Payload("Other", "", "", ""))]
\* ContentBlockDelta whose delta is None
CBDeltaNone == [kind |-> "ContentBlockDelta", payload |-> None]
CBStop == [kind |-> "ContentBlockStop", payload |-> None]
MsgStop == [kind |-> "MessageStop", payload |-> None]
MetadataEv(m) == [kind |-> "Metadata", payload |-> Some(Payload("Metadata", "", "", m))]
\* any other ConverseStreamOutput variant (MessageStart, Unknown, ...)
UnknownEv == [kind |-> "Unknown", payload |-> None]
\* output.stream.recv() returned Ok(None): the underlying stream is exhausted
StreamNone == [kind |-> "StreamNone", payload |-> None]
\* output.stream.recv() returned Err(e)
StreamErr == [kind |-> "StreamErr", payload |-> None]

\* the tools, text fragments, input fragments and metadata values of the wire
ToolStarts == {CBStartTool("t1", "n1"), CBStartTool("t2", "n2")}
TextDeltas == {CBDeltaText("a"), CBDeltaText("")}
ToolDeltas == {CBDeltaTool("x"), CBDeltaTool("y")}
MetadataEvs == {MetadataEv("m1"), MetadataEv("m2")}

WireItems ==
    ToolStarts \cup TextDeltas \cup ToolDeltas \cup MetadataEvs
    \cup {CBStartOther, CBStartNone, CBDeltaOther, CBDeltaNone, CBStop, MsgStop,
          UnknownEv, StreamNone, StreamErr}

----------------------------------------------------------------------------
(* ChatResponseStream values and the values recv returns *)

AssistantResponseEvent(content) ==
    [t |-> "AssistantResponseEvent", content |-> content]
ToolUseEvent(id, name, input, stop) ==
    [t |-> "ToolUseEvent", tool_use_id |-> id, name |-> name, input |-> input, stop |-> stop]
ToolUseState(id, name) == [tool_use_id |-> id, name |-> name]

\* Result<Option<ChatResponseStream>, ApiClientError>
OkSome(ev) == [ok |-> TRUE, ev |-> Some(ev)]
OkNone == [ok |-> TRUE, ev |-> None]
ErrSmithyBuild == [ok |-> FALSE, ev |-> None]

\* one pass of recv's loop: the state after it and Some(value) when it returns,
\* None when it continues
Pass(tool, meta, ret) == [tool |-> tool, meta |-> meta, ret |-> ret]

----------------------------------------------------------------------------
(* SendMessageOutputBedrock::recv: one operator per arm of its match *)

\* BedrockStream::ContentBlockStart(start)
OnContentBlockStart(ev, tool, meta) ==
    IF IsSome(ev.payload) /\ Unwrap(ev.payload).variant = "ToolUse"
    THEN LET tool_use == Unwrap(ev.payload) IN
         Pass(Some(ToolUseState(tool_use.tool_use_id, tool_use.name)), meta,
              Some(OkSome(ToolUseEvent(tool_use.tool_use_id, tool_use.name, None, None))))
    ELSE Pass(tool, meta, None)

\* mutant of OnTextDelta: the is_empty test is left out
OnTextDelta_ForwardEmpty(text, tool, meta) ==
    Pass(tool, meta, Some(OkSome(AssistantResponseEvent(text))))

\* BedrockStream::ContentBlockDelta(delta), ContentBlockDelta::Text(text)
OnTextDelta(text, tool, meta) ==
    IF text # ""
    THEN Pass(tool, meta, Some(OkSome(AssistantResponseEvent(text))))
    ELSE Pass(tool, meta, None)

\* mutant of OnToolUseDelta: the fragment is not put in the event
OnToolUseDelta_NoInput(input, tool, meta) ==
    IF IsSome(tool)
    THEN LET state == Unwrap(tool) IN
         Pass(tool, meta,
              Some(OkSome(ToolUseEvent(state.tool_use_id, state.name, None, None))))
    ELSE Pass(tool, meta, None)

\* mutant of OnToolUseDelta: a fragment with no open tool is returned as an error
OnToolUseDelta_FaultWhenIdle(input, tool, meta) ==
    IF IsSome(tool)
    THEN LET state == Unwrap(tool) IN
         Pass(tool, meta,
              Some(OkSome(ToolUseEvent(state.tool_use_id, state.name, Some(input), None))))
    ELSE Pass(tool, meta, Some(ErrSmithyBuild))

\* BedrockStream::ContentBlockDelta(delta), ContentBlockDelta::ToolUse(tool_use)
OnToolUseDelta(input, tool, meta) ==
    IF IsSome(tool)
    THEN LET state == Unwrap(tool) IN
         Pass(tool, meta,
              Some(OkSome(ToolUseEvent(state.tool_use_id, state.name, Some(input), None))))
    ELSE Pass(tool, meta, None)

\* BedrockStream::ContentBlockDelta(delta)
OnContentBlockDelta(ev, tool, meta) ==
    IF IsSome(ev.payload)
    THEN LET content_delta == Unwrap(ev.payload) IN
         CASE content_delta.variant = "Text" -> OnTextDelta(content_delta.data, tool, meta)
           [] content_delta.variant = "ToolUse" -> OnToolUseDelta(content_delta.data, tool, meta)
           [] OTHER -> Pass(tool, meta, None)
    ELSE Pass(tool, meta, None)

\* mutant of OnContentBlockStop: the stop event is returned but current_tool
\* is not taken
OnContentBlockStop_KeepOpen(ev, tool, meta) ==
    IF IsSome(tool)
    THEN LET state == Unwrap(tool) IN
         Pass(tool, meta,
              Some(OkSome(ToolUseEvent(state.tool_use_id, state.name, None, Some(TRUE)))))
    ELSE Pass(None, meta, None)

\* BedrockStream::ContentBlockStop(_): current_tool.take()
OnContentBlockStop(ev, tool, meta) ==
    IF IsSome(tool)
    THEN LET state == Unwrap(tool) IN
         Pass(None, meta,
              Some(OkSome(ToolUseEvent(state.tool_use_id, state.name, None, Some(TRUE)))))
    ELSE Pass(None, meta, None)

\* mutant of OnMessageStop: the loop goes on after a message stop
OnMessageStop_Continue(ev, tool, meta) == Pass(tool, meta, None)

\* mutant of OnMessageStop: an open tool is closed with a stop event first
OnMessageStop_CloseTool(ev, tool, meta) ==
    IF IsSome(tool)
    THEN LET state == Unwrap(tool) IN
         Pass(None, meta,
              Some(OkSome(ToolUseEvent(state.tool_use_id, state.name, None, Some(TRUE)))))
    ELSE Pass(tool, meta, Some(OkNone))

\* BedrockStream::MessageStop(_)
OnMessageStop(ev, tool, meta) == Pass(tool, meta, Some(OkNone))

\* the tracing records of one pass of the loop that takes a MessageStop:
\* lines 33, 36 and 108; none of them reads current_tool
MessageStopLog(ev, tool) ==
    << [level |-> "debug", message |-> "Receiving from Bedrock stream", event |-> None],
       [level |-> "debug", message |-> "Received Bedrock event: {:?}", event |-> Some(ev)],
       [level |-> "debug", message |-> "MessageStop - stream complete", event |-> None] >>

\* mutant of OnMetadata: the first metadata event is kept
OnMetadata_KeepFirst(ev, tool, meta) ==
    Pass(tool, IF IsSome(meta) THEN meta ELSE Some(Unwrap(ev.payload).data), None)

\* mutant of OnMetadata: the metadata event ends the stream
OnMetadata_EndsStream(ev, tool, meta) == Pass(tool, Some(Unwrap(ev.payload).data), Some(OkNone))

\* BedrockStream::Metadata(metadata)
OnMetadata(ev, tool, meta) == Pass(tool, Some(Unwrap(ev.payload).data), None)

\* mutant of OnStreamNone: the end of the underlying stream is an error
OnStreamNone_Error(ev, tool, meta) == Pass(tool, meta, Some(ErrSmithyBuild))

\* Ok(None) of output.stream.recv()
OnStreamNone(ev, tool, meta) == Pass(tool, meta, Some(OkNone))

\* mutant of OnStreamErr: the failure is returned as end-of-stream
OnStreamErr_EndOfStream(ev, tool, meta) == Pass(tool, meta, Some(OkNone))

\* Err(e) of output.stream.recv()
OnStreamErr(ev, tool, meta) == Pass(tool, meta, Some(ErrSmithyBuild))

\* the body of recv's loop for one item of the underlying stream
RecvPass(ev, tool, meta) ==
    CASE ev.kind = "ContentBlockStart" -> OnContentBlockStart(ev, tool, meta)
      [] ev.kind = "ContentBlockDelta" -> OnContentBlockDelta(ev, tool, meta)
      [] ev.kind = "ContentBlockStop" -> OnContentBlockStop(ev, tool, meta)
      [] ev.kind = "MessageStop" -> OnMessageStop(ev, tool, meta)
      [] ev.kind = "Metadata" -> OnMetadata(ev, tool, meta)
      [] ev.kind = "StreamNone" -> OnStreamNone(ev, tool, meta)
      [] ev.kind = "StreamErr" -> OnStreamErr(ev, tool, meta)
      [] OTHER -> Pass(tool, meta, None)

\* recv's loop over the items the underlying stream delivers during one call:
\* it stops at the first pass that returns. used is the number of items taken,
\* before the value of current_tool at each of them.
RECURSIVE RecvLoop(_, _, _, _, _)
RecvLoop(items, i, tool, meta, before) ==
    IF i > Len(items)
    THEN [used |-> i - 1, tool |-> tool, meta |-> meta, ret |-> None, before |-> before]
    ELSE LET p == RecvPass(items[i], tool, meta) IN
         IF IsSome(p.ret)
         THEN [used |-> i, tool |-> p.tool, meta |-> p.meta, ret |-> p.ret,
               before |-> Append(before, tool)]
         ELSE RecvLoop(items, i + 1, p.tool, p.meta, Append(before, tool))

\* the underlying stream: once it has delivered Ok(None) it is exhausted and
\* delivers Ok(None) again
StreamOk(w) == \A i \in 1..(Len(w) - 1) : w[i] = StreamNone => w[i + 1] = StreamNone

\* one call of recv that returns: the underlying stream delivers items, the
\* last of which makes the loop return
Recv ==
    \E n \in 1..(MaxWire - Len(wire)) :
      \E items \in [1..n -> WireItems] :
        LET r == RecvLoop(items, 1, current_tool, metadata, <<>>) IN
        /\ StreamOk(wire \o items)
        /\ r.used = n
        /\ IsSome(r.ret)
        /\ wire' = wire \o items
        /\ current_tool' = r.tool
        /\ metadata' = r.meta
        /\ returned' = Append(returned, Unwrap(r.ret))
        /\ returnedAt' = Append(returnedAt, Len(wire) + n)
        /\ toolBefore' = toolBefore \o r.before
        /\ UNCHANGED <<sendVars, clsVars, encVars, streamVarsB, mockVars>>

\* SendMessageOutputBedrock::new
StreamInit ==
    /\ wire = <<>>
    /\ current_tool = None
    /\ metadata = None
    /\ returned = <<>>
    /\ returnedAt = <<>>
    /\ toolBefore = <<>>

SendIdle ==
    /\ mock_client = None
    /\ dispatched = None
    /\ sendArgs = None
    /\ sendResult = None

ClsIdle ==
    /\ clsArgs = None
    /\ clsResult = None

\* SendMessageOutputBedrock::new, for the second handle
StreamInitB ==
    /\ wireB = <<>>
    /\ current_toolB = None
    /\ metadataB = None
    /\ returnedB = <<>>

\* no mock installed, no caller in send_message
MockIdle ==
    /\ mock_json = None
    /\ mock_seeded = None
    /\ mock_lock = None
    /\ caller = <<>>

EncIdle ==
    /\ encArgs = None
    /\ encResult = None
    /\ encAgain = None

Init == StreamInit /\ SendIdle /\ ClsIdle /\ EncIdle /\ StreamInitB /\ MockIdle

Next == Recv

Spec == Init /\ [][Next]_vars

----------------------------------------------------------------------------
(* Reading the histories of a stream handle *)

IsToolStart(e) ==
    e.kind = "ContentBlockStart" /\ IsSome(e.payload) /\ Unwrap(e.payload).variant = "ToolUse"
IsTextDelta(e) ==
    e.kind = "ContentBlockDelta" /\ IsSome(e.payload) /\ Unwrap(e.payload).variant = "Text"
IsNonEmptyTextDelta(e) == IsTextDelta(e) /\ Unwrap(e.payload).data # ""
IsToolDelta(e) ==
    e.kind = "ContentBlockDelta" /\ IsSome(e.payload) /\ Unwrap(e.payload).variant = "ToolUse"

\* the returned values that are events of each kind
IsTextRet(r) == r.ok /\ IsSome(r.ev) /\ Unwrap(r.ev).t = "AssistantResponseEvent"
IsToolRet(r) == r.ok /\ IsSome(r.ev) /\ Unwrap(r.ev).t = "ToolUseEvent"
IsStartRet(r) == IsToolRet(r) /\ Unwrap(r.ev).input = None /\ Unwrap(r.ev).stop = None
IsStopRet(r) == IsToolRet(r) /\ Unwrap(r.ev).stop = Some(TRUE)

\* current_tool right after wire[i] was handled
ToolAfter(i) == IF i < Len(wire) THEN toolBefore[i + 1] ELSE current_tool

\* the values recv returned for the items wire[i..j], in order
RetBetween(i, j) ==
    LET ks == {k \in DOMAIN returned : returnedAt[k] \in i..j} IN
    IF ks = {} THEN <<>>
    ELSE LET lo == CHOOSE k \in ks : \A m \in ks : k <= m IN
         [m \in 1..Cardinality(ks) |-> returned[lo + m - 1]]

\* every returned value was made by one wire item, later values by later items
HistoryOk ==
    /\ Len(returnedAt) = Len(returned)
    /\ Len(toolBefore) = Len(wire)
    /\ \A k \in DOMAIN returnedAt : returnedAt[k] \in DOMAIN wire
    /\ \A k \in 1..(Len(returnedAt) - 1) : returnedAt[k] < returnedAt[k + 1]

----------------------------------------------------------------------------
(* C1: when the wire holds a tool-use block start (id, name), then tool-use *)
(* input deltas, then the next block stop, with no tool-use start between   *)
(* them, the ToolUseEvents recv returns for these items are exactly         *)
(* start(id, name), one event per input delta with the same id and name and *)
(* the fragment verbatim, in arrival order, and stop(id, name).             *)
C1_ToolUseSequence ==
    \A i \in DOMAIN wire : \A j \in DOMAIN wire :
      ( /\ i < j
        /\ IsToolStart(wire[i])
        /\ wire[j] = CBStop
        /\ \A m \in (i + 1)..(j - 1) : ~IsToolStart(wire[m]) /\ wire[m] # CBStop )
      => LET id == Unwrap(wire[i].payload).tool_use_id
             name == Unwrap(wire[i].payload).name
             deltas == SelectSeq(SubSeq(wire, i + 1, j - 1), IsToolDelta)
         IN  SelectSeq(RetBetween(i, j), IsToolRet)
               = <<OkSome(ToolUseEvent(id, name, None, None))>>
                 \o [m \in 1..Len(deltas) |->
                       OkSome(ToolUseEvent(id, name, Some(Unwrap(deltas[m].payload).data), None))]
                 \o <<OkSome(ToolUseEvent(id, name, None, Some(TRUE)))>>

\* a start, two different fragments and the stop were taken and returned
C1_Witness ==
    /\ wire = <<CBStartTool("t1", "n1"), CBDeltaTool("x"), CBDeltaTool("y"), CBStop>>
    /\ Len(returned) = 4

(* C2: the AssistantResponseEvents recv returns are exactly the non-empty   *)
(* text deltas of the wire, in arrival order, each once; an empty text delta *)
(* makes no returned value; a text delta leaves current_tool as it was.     *)
C2_TextForwarded ==
    /\ LET texts == SelectSeq(wire, IsNonEmptyTextDelta) IN
       SelectSeq(returned, IsTextRet)
         = [m \in 1..Len(texts) |-> OkSome(AssistantResponseEvent(Unwrap(texts[m].payload).data))]
    /\ \A k \in DOMAIN returned :
         IsTextRet(returned[k]) =>
           wire[returnedAt[k]] = CBDeltaText(Unwrap(returned[k].ev).content)
    /\ \A i \in DOMAIN wire :
         IsTextDelta(wire[i]) =>
           /\ ToolAfter(i) = toolBefore[i]
           /\ ~IsNonEmptyTextDelta(wire[i]) => \A k \in DOMAIN returned : returnedAt[k] # i

\* an empty and a non-empty text delta were taken while a tool was open
C2_Witness ==
    \E i \in DOMAIN wire : \E j \in DOMAIN wire :
      /\ wire[i] = CBDeltaText("") /\ IsSome(toolBefore[i])
      /\ wire[j] = CBDeltaText("a") /\ IsSome(toolBefore[j])
      /\ \E k \in DOMAIN returned : returnedAt[k] = j

(* C3: in the returned events, after the start event of a tool and until    *)
(* the stop event of that tool id, every ToolUseEvent carries that tool id  *)
(* and is not another start: the events of one tool are start, deltas,      *)
(* stop, and no other tool's event lies between them.                       *)
C3_ToolEventsBracketed ==
    \A a \in DOMAIN returned : \A b \in DOMAIN returned :
      ( /\ a < b
        /\ IsStartRet(returned[a])
        /\ IsToolRet(returned[b])
        /\ \A c \in (a + 1)..(b - 1) :
             ~(IsStopRet(returned[c])
               /\ Unwrap(returned[c].ev).tool_use_id = Unwrap(returned[a].ev).tool_use_id) )
      => /\ Unwrap(returned[b].ev).tool_use_id = Unwrap(returned[a].ev).tool_use_id
         /\ ~IsStartRet(returned[b])

(* C4, as claimed: a tool-use input delta or a block stop taken while no    *)
(* tool invocation is open makes recv return an error.                      *)
C4_OrphanIsFault ==
    \A i \in DOMAIN wire :
      ((IsToolDelta(wire[i]) \/ wire[i] = CBStop) /\ toolBefore[i] = None)
      => \E k \in DOMAIN returned : returnedAt[k] = i /\ ~returned[k].ok

(* C4, amended: a tool-use input delta or a block stop taken while no tool  *)
(* invocation is open is skipped: recv returns nothing for it (no event, no *)
(* error), current_tool stays None and recv goes on to the next wire item.  *)
C4_OrphanIsSkipped ==
    \A i \in DOMAIN wire :
      ((IsToolDelta(wire[i]) \/ wire[i] = CBStop) /\ toolBefore[i] = None)
      => /\ \A k \in DOMAIN returned : returnedAt[k] # i
         /\ ToolAfter(i) = None
         /\ i < Len(wire)

\* an input delta and a block stop were both taken with no tool open
C4_Witness ==
    \E i \in DOMAIN wire : \E j \in DOMAIN wire :
      /\ IsToolDelta(wire[i]) /\ toolBefore[i] = None
      /\ wire[j] = CBStop /\ toolBefore[j] = None

(* C5: once recv has returned end-of-stream, no later recv on that handle   *)
(* returns an AssistantResponseEvent or a ToolUseEvent (so not every later  *)
(* recv returns end-of-stream), whatever wire items follow.                 *)
C5_StreamEndTerminal ==
    \A a \in DOMAIN returned : \A b \in DOMAIN returned :
      (a < b /\ returned[a] = OkNone) => ~(returned[b].ok /\ IsSome(returned[b].ev))

(* C6: a message stop makes recv return end-of-stream (not an error, not an *)
(* event) whether or not a tool is open, and no stop ToolUseEvent is made   *)
(* up: every stop event returned comes from a block stop of the wire.       *)
C6_MessageStopEnds ==
    /\ \A i \in DOMAIN wire :
         wire[i] = MsgStop => \E k \in DOMAIN returned : returnedAt[k] = i /\ returned[k] = OkNone
    /\ \A k \in DOMAIN returned : IsStopRet(returned[k]) => wire[returnedAt[k]] = CBStop

\* a message stop was taken while a tool was open
C6_Witness ==
    \E i \in DOMAIN wire : wire[i] = MsgStop /\ IsSome(toolBefore[i])

----------------------------------------------------------------------------
(* classify_error_kind (mod.rs). A response body is a sequence of pieces of *)
(* text; each literal the classifier searches for is one piece, so that     *)
(* `contains` is the search for a window of the body equal to the needle.   *)

\* the longest response body, in pieces
MaxBody == 2

INPUT_TOO_LONG == <<"Input is too long.">>
INSUFFICIENT_MODEL_CAPACITY == <<"INSUFFICIENT_MODEL_CAPACITY">>
HIGH_LOAD ==
    <<"Encountered unexpectedly high load when processing the request, please try again.">>
MONTHLY_REQUEST_COUNT == <<"MONTHLY_REQUEST_COUNT">>

BodyPieces ==
    {INPUT_TOO_LONG[1], INSUFFICIENT_MODEL_CAPACITY[1], HIGH_LOAD[1], MONTHLY_REQUEST_COUNT[1],
     "Some other error"}
Bodies == UNION {[1..n -> BodyPieces] : n \in 0..MaxBody}
StatusCodes == {None, Some(400), Some(404), Some(429), Some(500)}

ErrorKind(kind) == [kind |-> kind, reason_code |-> ""]
Unknown(reason_code) == [kind |-> "Unknown", reason_code |-> reason_code]

\* error::sdk_error_code: the reason code of an SDK error
sdk_error_code(sdk_error) == sdk_error

\* the closure `contains`: haystack.windows(needle.len()).any(|v| v == needle)
contains(haystack, needle) ==
    \E i \in 1..(Len(haystack) - Len(needle) + 1) :
      SubSeq(haystack, i, i + Len(needle) - 1) = needle

\* mutant of classify_error_kind: throttling is tested before model capacity
classify_error_kind_ThrottlingFirst(status_code, body, model_id_opt, sdk_error) ==
    LET is_throttling == IsSome(status_code) /\ Unwrap(status_code) = 429
        is_context_window_overflow == contains(body, INPUT_TOO_LONG)
        is_model_unavailable ==
            \/ contains(body, INSUFFICIENT_MODEL_CAPACITY)
            \/ ( /\ IsSome(model_id_opt)
                 /\ IsSome(status_code) /\ Unwrap(status_code) = 500
                 /\ contains(body, HIGH_LOAD) )
        is_monthly_limit_err == contains(body, MONTHLY_REQUEST_COUNT)
    IN  IF is_context_window_overflow THEN ErrorKind("ContextWindowOverflow")
        ELSE IF is_throttling THEN ErrorKind("Throttling")
        ELSE IF is_model_unavailable THEN ErrorKind("ModelOverloadedError")
        ELSE IF is_monthly_limit_err THEN ErrorKind("MonthlyLimitReached")
        ELSE Unknown(sdk_error_code(sdk_error))

\* mutant of classify_error_kind: the legacy fallback does not test the status
classify_error_kind_LegacyAnyStatus(status_code, body, model_id_opt, sdk_error) ==
    LET is_throttling == IsSome(status_code) /\ Unwrap(status_code) = 429
        is_context_window_overflow == contains(body, INPUT_TOO_LONG)
        is_model_unavailable ==
            \/ contains(body, INSUFFICIENT_MODEL_CAPACITY)
            \/ (IsSome(model_id_opt) /\ contains(body, HIGH_LOAD))
        is_monthly_limit_err == contains(body, MONTHLY_REQUEST_COUNT)
    IN  IF is_context_window_overflow THEN ErrorKind("ContextWindowOverflow")
        ELSE IF is_model_unavailable THEN ErrorKind("ModelOverloadedError")
        ELSE IF is_throttling THEN ErrorKind("Throttling")
        ELSE IF is_monthly_limit_err THEN ErrorKind("MonthlyLimitReached")
        ELSE Unknown(sdk_error_code(sdk_error))

classify_error_kind(status_code, body, model_id_opt, sdk_error) ==
    LET is_throttling == IsSome(status_code) /\ Unwrap(status_code) = 429
        is_context_window_overflow == contains(body, INPUT_TOO_LONG)
        is_model_unavailable ==
            \/ contains(body, INSUFFICIENT_MODEL_CAPACITY)
            \* Legacy error response fallback
            \/ ( /\ IsSome(model_id_opt)
                 /\ IsSome(status_code) /\ Unwrap(status_code) = 500
                 /\ contains(body, HIGH_LOAD) )
        is_monthly_limit_err == contains(body, MONTHLY_REQUEST_COUNT)
    IN  IF is_context_window_overflow THEN ErrorKind("ContextWindowOverflow")
        ELSE IF is_model_unavailable THEN ErrorKind("ModelOverloadedError")
        ELSE IF is_throttling THEN ErrorKind("Throttling")
        ELSE IF is_monthly_limit_err THEN ErrorKind("MonthlyLimitReached")
        ELSE Unknown(sdk_error_code(sdk_error))

\* one call of classify_error_kind
ClassifyErrorKind ==
    \E status_code \in StatusCodes, body \in Bodies, model_id_opt \in {None, Some("model-1")} :
      /\ clsArgs' = Some([status_code |-> status_code, body |-> body,
                          model_id_opt |-> model_id_opt, sdk_error |-> "test"])
      /\ clsResult' = Some(classify_error_kind(status_code, body, model_id_opt, "test"))
      /\ UNCHANGED <<streamVars, sendVars, encVars, streamVarsB, mockVars>>

ClassifyNext == ClassifyErrorKind

SpecClassify == Init /\ [][ClassifyNext]_vars

----------------------------------------------------------------------------
(* Reading a classify_error_kind call *)

\* the set of markers a body holds, found piece by piece
HasMarker(body, marker) == \E i \in DOMAIN body : body[i] = marker[1]

(* C9: classify_error_kind is the first-match-wins rule: input-too-long     *)
(* marker -> ContextWindowOverflow; else capacity marker, or (status 500    *)
(* and model id present and legacy high-load marker) -> ModelOverloadedError;*)
(* else status 429 -> Throttling; else monthly-request-count marker ->      *)
(* MonthlyLimitReached; else Unknown with the reason code of the SDK error. *)
C9_FirstMatchWins ==
    IsSome(clsArgs) =>
      LET a == Unwrap(clsArgs)
          got == Unwrap(clsResult)
      IN  CASE HasMarker(a.body, INPUT_TOO_LONG) -> got.kind = "ContextWindowOverflow"
            [] ~HasMarker(a.body, INPUT_TOO_LONG)
               /\ ( \/ HasMarker(a.body, INSUFFICIENT_MODEL_CAPACITY)
                    \/ ( a.status_code = Some(500) /\ a.model_id_opt # None
                         /\ HasMarker(a.body, HIGH_LOAD) ) )
                 -> got.kind = "ModelOverloadedError"
            [] OTHER ->
                 IF a.status_code = Some(429) THEN got.kind = "Throttling"
                 ELSE IF HasMarker(a.body, MONTHLY_REQUEST_COUNT)
                      THEN got.kind = "MonthlyLimitReached"
                      ELSE got = Unknown(a.sdk_error)

\* a body with several markers at once: the monthly-limit marker and the
\* high-load marker under status 429 without a capacity marker
C9_Witness ==
    /\ IsSome(clsArgs)
    /\ Unwrap(clsArgs).status_code = Some(429)
    /\ Unwrap(clsArgs).body = <<MONTHLY_REQUEST_COUNT[1], HIGH_LOAD[1]>>
    /\ Unwrap(clsResult).kind = "Throttling"

(* C10: status 429 with the insufficient-model-capacity marker in the body  *)
(* and without the input-too-long marker classifies as ModelOverloadedError,*)
(* with or without a model id.                                              *)
C10_CapacityBeforeThrottling ==
    ( /\ IsSome(clsArgs)
      /\ Unwrap(clsArgs).status_code = Some(429)
      /\ HasMarker(Unwrap(clsArgs).body, INSUFFICIENT_MODEL_CAPACITY)
      /\ ~HasMarker(Unwrap(clsArgs).body, INPUT_TOO_LONG) )
    => Unwrap(clsResult).kind = "ModelOverloadedError"

\* status 429, capacity marker, no model id
C10_Witness ==
    /\ IsSome(clsArgs)
    /\ Unwrap(clsArgs).status_code = Some(429)
    /\ Unwrap(clsArgs).model_id_opt = None
    /\ Unwrap(clsArgs).body = <<INSUFFICIENT_MODEL_CAPACITY[1]>>
    /\ Unwrap(clsResult).kind = "ModelOverloadedError"

----------------------------------------------------------------------------
(* The static model list (cli/chat/cli/model.rs) *)

ModelInfo(model_id, supports_tools) == [model_id |-> model_id, supports_tools |-> supports_tools]

\* get_builtin_models: the hardcoded list of allowed Bedrock models
get_builtin_models ==
    << ModelInfo("openai.gpt-oss-120b-1:0", TRUE),
       ModelInfo("openai.gpt-oss-20b-1:0", TRUE),
       ModelInfo("us.anthropic.claude-haiku-4-5-20251001-v1:0", TRUE),
       ModelInfo("qwen.qwen3-coder-480b-a35b-v1:0", FALSE),
       ModelInfo("meta.llama4-maverick-17b-instruct-v1:0", FALSE),
       ModelInfo("deepseek.v3-v1:0", FALSE) >>

\* mutant of get_default_model: the default is an identifier that is not on
\* the list
get_default_model_Unlisted == ModelInfo("model", FALSE)

\* get_default_model: get_builtin_models()[0]
get_default_model == get_builtin_models[1]

\* mutant of validate_model_id: every identifier is accepted
validate_model_id_AcceptAll(model_id) == TRUE

\* validate_model_id: TRUE for Ok(()), FALSE for the bail
validate_model_id(model_id) ==
    \E i \in DOMAIN get_builtin_models : get_builtin_models[i].model_id = model_id

\* mutant of model_supports_tools: every model is taken to support tools
model_supports_tools_Always(model_id) == TRUE

\* model_supports_tools: find(..).map(|m| m.supports_tools).unwrap_or(false)
model_supports_tools(model_id) ==
    LET found == {i \in DOMAIN get_builtin_models : get_builtin_models[i].model_id = model_id} IN
    IF found = {} THEN FALSE
    ELSE get_builtin_models[CHOOSE i \in found : \A k \in found : i <= k].supports_tools

----------------------------------------------------------------------------
(* The Message Encoder (api_client/bedrock.rs). A text is a sequence of     *)
(* characters, so that trim() is computed on it.                            *)

IsWhitespace(c) == c \in {" ", "\t", "\n", "\r"}

\* str::trim: the text without its leading and trailing whitespace
RECURSIVE TrimStart(_)
TrimStart(text) ==
    IF text # <<>> /\ IsWhitespace(Head(text)) THEN TrimStart(Tail(text)) ELSE text
RECURSIVE TrimEnd(_)
TrimEnd(text) ==
    IF text # <<>> /\ IsWhitespace(text[Len(text)])
    THEN TrimEnd(SubSeq(text, 1, Len(text) - 1)) ELSE text
trim(text) == TrimEnd(TrimStart(text))

\* aws_sdk_bedrockruntime::types::ContentBlock values
TextBlock(text) == [t |-> "Text", text |-> text]
ToolResultBlock(tool_use_id, content, status) ==
    [t |-> "ToolResult", tool_use_id |-> tool_use_id, content |-> content, status |-> status]
ToolUseBlock(tool_use_id, name, input) ==
    [t |-> "ToolUse", tool_use_id |-> tool_use_id, name |-> name, input |-> input]
\* aws_sdk_bedrockruntime::types::Message
Message(role, content) == [role |-> role, content |-> content]

\* the match on result.status
ConvertStatus(status) ==
    CASE status = "model::ToolResultStatus::Success" -> "bedrock::ToolResultStatus::Success"
      [] status = "model::ToolResultStatus::Error" -> "bedrock::ToolResultStatus::Error"

\* mutant of the match on each item of result.content: a Json document is
\* coerced to Text
ConvertResultContent_Stringify(item) == [variant |-> "bedrock::Text", data |-> item.data]

\* the match on each item of result.content
ConvertResultContent(item) ==
    CASE item.variant = "model::Text" -> [variant |-> "bedrock::Text", data |-> item.data]
      [] item.variant = "model::Json" -> [variant |-> "bedrock::Json", data |-> item.data]

\* the loop over tool_results: one ToolResult block per result
ToolResultBlocks(user_input_message_context) ==
    IF IsSome(user_input_message_context)
       /\ IsSome(Unwrap(user_input_message_context).tool_results)
    THEN LET tool_results == Unwrap(Unwrap(user_input_message_context).tool_results) IN
         [k \in 1..Len(tool_results) |->
            ToolResultBlock(
              tool_results[k].tool_use_id,
              [m \in 1..Len(tool_results[k].content) |->
                 ConvertResultContent(tool_results[k].content[m])],
              ConvertStatus(tool_results[k].status))]
    ELSE <<>>

\* mutant of the text block of a message: the text is tested without trim
TextBlocks_NoTrim(content) == IF content # <<>> THEN <<TextBlock(content)>> ELSE <<>>

\* mutant of the text block of a message: the trimmed text is sent
TextBlocks_Trimmed(content) == IF trim(content) # <<>> THEN <<TextBlock(trim(content))>> ELSE <<>>

\* the text block of a message: none when the text is empty after trim
TextBlocks(content) == IF trim(content) # <<>> THEN <<TextBlock(content)>> ELSE <<>>

\* the loop over tool_uses of an assistant message
ToolUseBlocks(tool_uses) ==
    IF IsSome(tool_uses)
    THEN LET uses == Unwrap(tool_uses) IN
         [k \in 1..Len(uses) |-> ToolUseBlock(uses[k].tool_use_id, uses[k].name, uses[k].input)]
    ELSE <<>>

\* convert_chat_message_to_bedrock: Some(message) for Ok, None for the bail
convert_chat_message_to_bedrock(msg) ==
    IF msg.t = "UserInputMessage"
    THEN LET content_blocks ==
               TextBlocks(msg.content) \o ToolResultBlocks(msg.user_input_message_context) IN
         IF content_blocks = <<>> THEN None ELSE Some(Message("User", content_blocks))
    ELSE LET content_blocks == TextBlocks(msg.content) \o ToolUseBlocks(msg.tool_uses) IN
         IF content_blocks = <<>> THEN None ELSE Some(Message("Assistant", content_blocks))

\* the loop over history: the messages of the entries that convert
RECURSIVE HistoryMessages(_)
HistoryMessages(hist) ==
    IF hist = <<>> THEN <<>>
    ELSE convert_chat_message_to_bedrock(Head(hist)) \o HistoryMessages(Tail(hist))

\* mutant of convert_to_bedrock_messages: the current turn is put first
convert_to_bedrock_messages_CurrentFirst(user_input, history) ==
    LET messages == IF IsSome(history) THEN HistoryMessages(Unwrap(history)) ELSE <<>>
        content_blocks ==
            TextBlocks(user_input.content) \o ToolResultBlocks(user_input.user_input_message_context)
    IN  IF content_blocks # <<>>
        THEN Some(<<Message("User", content_blocks)>> \o messages)
        ELSE Some(messages)

\* convert_to_bedrock_messages: Some(messages) for Ok; it has no failing path
\* (every builder is given its required fields)
convert_to_bedrock_messages(user_input, history) ==
    LET messages == IF IsSome(history) THEN HistoryMessages(Unwrap(history)) ELSE <<>>
        content_blocks ==
            TextBlocks(user_input.content) \o ToolResultBlocks(user_input.user_input_message_context)
    IN  IF content_blocks # <<>>
        THEN Some(Append(messages, Message("User", content_blocks)))
        ELSE Some(messages)

\* mutant of convert_tools_to_bedrock: the order of the kept tools is not
\* stable, a call after the first one puts them out in reverse
convert_tools_to_bedrock_UnstableOrder(tools) ==
    IF IsSome(tools)
    THEN LET kept == SelectSeq(Unwrap(tools), LAMBDA tool : IsSome(tool.input_schema_json))
             pos(k) == IF encResult = None THEN k ELSE Len(kept) + 1 - k
         IN  Some([tools |-> [k \in 1..Len(kept) |->
                                [name |-> kept[pos(k)].name, description |-> kept[pos(k)].description,
                                 input_schema |-> Unwrap(kept[pos(k)].input_schema_json)]]])
    ELSE None

\* mutant of convert_tools_to_bedrock: a tool without a schema fails the
\* whole conversion
convert_tools_to_bedrock_FailOnMissing(tools) ==
    IF IsSome(tools)
    THEN LET list == Unwrap(tools) IN
         IF \E k \in 1..Len(list) : ~IsSome(list[k].input_schema_json) THEN None
         ELSE Some([tools |-> [k \in 1..Len(list) |->
                                 [name |-> list[k].name, description |-> list[k].description,
                                  input_schema |-> Unwrap(list[k].input_schema_json)]]])
    ELSE None

\* convert_tools_to_bedrock: one ToolSpec per tool whose input_schema.json is
\* Some, in the order of the list; None when no list is given
convert_tools_to_bedrock(tools) ==
    IF IsSome(tools)
    THEN LET kept == SelectSeq(Unwrap(tools), LAMBDA tool : IsSome(tool.input_schema_json)) IN
         Some([tools |-> [k \in 1..Len(kept) |->
                            [name |-> kept[k].name, description |-> kept[k].description,
                             input_schema |-> Unwrap(kept[k].input_schema_json)]]])
    ELSE None

\* mutant of extract_system_prompt: the agent prompt block comes first
extract_system_prompt_AgentFirst(model_system_prompt, agent_prompt) ==
    LET blocks ==
          (IF IsSome(agent_prompt) THEN <<TextBlock(Unwrap(agent_prompt))>> ELSE <<>>)
          \o (IF IsSome(model_system_prompt) THEN <<TextBlock(Unwrap(model_system_prompt))>> ELSE <<>>)
    IN  IF blocks = <<>> THEN None ELSE Some(blocks)

\* extract_system_prompt: the model prompt block, then the agent prompt block
extract_system_prompt(model_system_prompt, agent_prompt) ==
    LET blocks ==
          (IF IsSome(model_system_prompt) THEN <<TextBlock(Unwrap(model_system_prompt))>> ELSE <<>>)
          \o (IF IsSome(agent_prompt) THEN <<TextBlock(Unwrap(agent_prompt))>> ELSE <<>>)
    IN  IF blocks = <<>> THEN None ELSE Some(blocks)

----------------------------------------------------------------------------
(* ApiClient::send_message (api_client/mod.rs) *)

\* Result<SendMessageOutput, ConverseStreamError>
SendOkBedrock ==
    [ok |-> TRUE, variant |-> "Bedrock", events |-> <<>>, kind |-> ErrorKind(""),
     request_id |-> None, status_code |-> None]
SendOkMock(events) ==
    [ok |-> TRUE, variant |-> "Mock", events |-> events, kind |-> ErrorKind(""),
     request_id |-> None, status_code |-> None]
SendErr(kind, request_id, status_code) ==
    [ok |-> FALSE, variant |-> "", events |-> <<>>, kind |-> kind,
     request_id |-> request_id, status_code |-> status_code]

\* what one send_message call does: the value it returns, the mock queue it
\* leaves, and Some(request) when it called request.send()
Sent(result, mock, request) == [result |-> result, mock |-> mock, request |-> request]

\* mutant of Reverse: the list is left in its order
Reverse_Identity(seq) == seq

\* Vec::reverse
Reverse(seq) == [k \in 1..Len(seq) |-> seq[Len(seq) + 1 - k]]

\* mutant of the match on tier.as_str(): only "default" maps to Default
ServiceTierType_FlexUnlessDefault(tier) ==
    IF tier = "default" THEN "ServiceTierType::Default" ELSE "ServiceTierType::Flex"

\* the match on tier.as_str()
ServiceTierType(tier) ==
    IF tier = "flex" THEN "ServiceTierType::Flex" ELSE "ServiceTierType::Default"

\* mutant of the Err arm of request.send(): no check for status 404
SendErrorKind_NoRegionCheck(status_code) == ErrorKind("ApiError")

\* the Err arm of request.send(): the kind of the error returned
SendErrorKind(status_code) ==
    IF IsSome(status_code)
    THEN IF Unwrap(status_code) = 404 THEN ErrorKind("ModelNotAvailable") ELSE ErrorKind("ApiError")
    ELSE ErrorKind("ApiError")

\* send_message, given the outcome net of request.send() should it be called
send_message(mock, conversation, net) ==
    LET user_input_message == conversation.user_input_message
        model_id == IF IsSome(user_input_message.model_id)
                    THEN Unwrap(user_input_message.model_id)
                    ELSE get_default_model.model_id
    IN
    IF ~validate_model_id(model_id)
    THEN Sent(SendErr(ErrorKind("InvalidModel"), None, None), mock, None)
    ELSE IF IsSome(mock)
    THEN \* client.lock().next().unwrap_or_default(), reversed
         LET queue == Unwrap(mock)
             new_events == IF queue = <<>> THEN <<>> ELSE Head(queue)
         IN  Sent(SendOkMock(Reverse(new_events)),
                  Some(IF queue = <<>> THEN <<>> ELSE Tail(queue)), None)
    ELSE
    LET messages == convert_to_bedrock_messages(user_input_message, conversation.history) IN
    IF ~IsSome(messages)
    THEN Sent(SendErr(ErrorKind("MessageConversion"), None, None), mock, None)
    ELSE
    LET supports_tools == model_supports_tools(model_id)
        tools == convert_tools_to_bedrock(
                   IF IsSome(user_input_message.user_input_message_context)
                   THEN Unwrap(user_input_message.user_input_message_context).tools
                   ELSE None)
        request == [model_id |-> model_id,
                    messages |-> Unwrap(messages),
                    tool_config |-> IF supports_tools THEN tools ELSE None,
                    service_tier |-> IF IsSome(conversation.service_tier)
                                     THEN Some(ServiceTierType(Unwrap(conversation.service_tier)))
                                     ELSE None]
    IN  IF net.ok
        THEN Sent(SendOkBedrock, mock, Some(request))
        ELSE Sent(SendErr(SendErrorKind(net.status_code), net.request_id, net.status_code),
                  mock, Some(request))

\* "Hello" and a whitespace-only text
Hello == <<"H", "e", "l", "l", "o">>
Blank == <<" ", " ", " ">>

\* the first allow-listed model without tool support, and an identifier that
\* is not on the list (the one mod.rs's test_mock uses)
NoToolsModel == "qwen.qwen3-coder-480b-a35b-v1:0"
UnlistedModel == "model"

ToolSpec(name, input_schema_json) ==
    [name |-> name, description |-> "d", input_schema_json |-> input_schema_json]

\* the conversations send_message is called with
Conversations ==
    { [ user_input_message |->
          [content |-> content, model_id |-> model_id,
           user_input_message_context |-> context],
        history |-> Some(<< [t |-> "AssistantResponseMessage", content |-> Hello,
                             tool_uses |-> None] >>),
        service_tier |-> service_tier,
        model_system_prompt |-> None,
        agent_prompt |-> None ] :
      content \in {Hello, Blank},
      model_id \in {None, Some(get_default_model.model_id), Some(NoToolsModel),
                    Some(UnlistedModel)},
      context \in {None, Some([tool_results |-> None,
                               tools |-> Some(<<ToolSpec("fs_read", Some("schema"))>>)])},
      service_tier \in {None, Some("flex")} }

\* the outcomes of request.send(): Ok(output), or Err(err) with the status
\* and body of the raw response and the request id of the error metadata
NetOutcomes ==
    {[ok |-> TRUE, status_code |-> None, body |-> <<>>, request_id |-> None]}
    \cup { [ok |-> FALSE, status_code |-> status_code, body |-> body, request_id |-> request_id] :
           status_code \in StatusCodes,
           body \in {<<"Some other error">>, INSUFFICIENT_MODEL_CAPACITY},
           request_id \in {None, Some("req-1")} }

\* the fixture of mod.rs's test_mock, and a second response
MockFixture ==
    << << AssistantResponseEvent("Hello!"), AssistantResponseEvent(" How can I"),
          AssistantResponseEvent(" assist you today?") >>,
       << AssistantResponseEvent("Bye") >> >>

\* one call of send_message
SendMessage ==
    \E conversation \in Conversations, net \in NetOutcomes :
      LET done == send_message(mock_client, conversation, net) IN
      /\ sendArgs' = Some([conversation |-> conversation, net |-> net])
      /\ sendResult' = Some(done.result)
      /\ mock_client' = done.mock
      /\ dispatched' = done.request
      /\ UNCHANGED <<streamVars, clsVars, encVars, streamVarsB, mockVars>>

\* ApiClient::new, with or without set_mock_output
SendInit ==
    /\ StreamInit /\ ClsIdle /\ EncIdle /\ StreamInitB /\ MockIdle
    /\ mock_client \in {None, Some(MockFixture)}
    /\ dispatched = None
    /\ sendArgs = None
    /\ sendResult = None

SendNext == SendMessage

SpecSend == SendInit /\ [][SendNext]_vars

----------------------------------------------------------------------------
(* Reading a send_message call *)

AllowList == {get_builtin_models[i].model_id : i \in DOMAIN get_builtin_models}

\* the last call's arguments
LastConversation == Unwrap(sendArgs).conversation
LastNet == Unwrap(sendArgs).net
\* the model identifier the last call was given, if any
LastModelId == LastConversation.user_input_message.model_id

(* C7: when request.send() fails, the error kind send_message returns is   *)
(* ModelNotAvailable for status 404 and otherwise the kind                  *)
(* classify_error_kind computes from the status, the body and the model id *)
(* (status 429 without a marker: Throttling).                               *)
C7_NetworkErrorClassified ==
    (IsSome(sendArgs) /\ IsSome(dispatched) /\ ~LastNet.ok)
    => Unwrap(sendResult).kind.kind =
         IF LastNet.status_code = Some(404) THEN "ModelNotAvailable"
         ELSE classify_error_kind(LastNet.status_code, LastNet.body,
                                  Some(Unwrap(dispatched).model_id), "sdk").kind

----------------------------------------------------------------------------
(* One send_message call of a live client (no mock installed). The client  *)
(* keeps no state between calls, so the call's arguments are drawn when    *)
(* the client is built and the one action is the call.                     *)

\* crate::api_client::model::ToolResult and its content blocks
ToolResult(tool_use_id, content, status) ==
    [tool_use_id |-> tool_use_id, content |-> content, status |-> status]
ResultText(data) == [variant |-> "model::Text", data |-> data]
ResultJson(data) == [variant |-> "model::Json", data |-> data]

ResultA ==
    ToolResult("tool-1", <<ResultText("out"), ResultJson("doc")>>,
               "model::ToolResultStatus::Success")
ResultB == ToolResult("tool-2", <<ResultJson("doc")>>, "model::ToolResultStatus::Error")

\* UserInputMessageContext
Context(tool_results, tools) == [tool_results |-> tool_results, tools |-> tools]

\* the tool lists a caller supplies: none, an empty one, one tool with a
\* schema, and a tool without a schema followed by one with a schema
ToolLists ==
    { None, Some(<<>>), Some(<<ToolSpec("fs_read", Some("schema"))>>),
      Some(<<ToolSpec("no_schema", None), ToolSpec("fs_read", Some("schema"))>>) }

\* the conversations a live client is called with
LiveConversations ==
    { [ user_input_message |->
          [content |-> content, model_id |-> model_id,
           user_input_message_context |-> context],
        history |-> history,
        service_tier |-> service_tier,
        model_system_prompt |-> None,
        agent_prompt |-> None ] :
      content \in {Hello, Blank},
      model_id \in {None, Some(get_default_model.model_id), Some(NoToolsModel),
                    Some(UnlistedModel)},
      context \in {None} \cup { Some(Context(tool_results, tools)) :
                                  tool_results \in {None, Some(<<ResultA>>)},
                                  tools \in ToolLists },
      history \in { None, Some(<<>>),
                    Some(<< [t |-> "AssistantResponseMessage", content |-> Blank,
                             tool_uses |-> None] >>),
                    Some(<< [t |-> "AssistantResponseMessage", content |-> Hello,
                             tool_uses |-> None] >>) },
      service_tier \in {None, Some("flex"), Some("default"), Some("priority")} }

\* the outcomes of request.send() for a live client: every status with
\* a body without marker and with each of the classifier's markers
LiveNetOutcomes ==
    {[ok |-> TRUE, status_code |-> None, body |-> <<>>, request_id |-> None]}
    \cup { [ok |-> FALSE, status_code |-> status_code, body |-> body, request_id |-> request_id] :
           status_code \in StatusCodes,
           body \in {<<"Some other error">>, INPUT_TOO_LONG, INSUFFICIENT_MODEL_CAPACITY,
                     HIGH_LOAD, MONTHLY_REQUEST_COUNT},
           request_id \in {None, Some("req-1")} }

\* ApiClient::new without set_mock_output, and the arguments of the call
LiveInit ==
    /\ StreamInit /\ ClsIdle /\ EncIdle /\ StreamInitB /\ MockIdle
    /\ mock_client = None
    /\ dispatched = None
    /\ sendArgs \in { Some([conversation |-> conversation, net |-> net]) :
                        conversation \in LiveConversations, net \in LiveNetOutcomes }
    /\ sendResult = None

\* the call of send_message
SendMessageLive ==
    /\ IsSome(sendArgs)
    /\ sendResult = None
    /\ LET done == send_message(mock_client, Unwrap(sendArgs).conversation, Unwrap(sendArgs).net) IN
       /\ sendResult' = Some(done.result)
       /\ mock_client' = done.mock
       /\ dispatched' = done.request
    /\ UNCHANGED <<sendArgs, streamVars, clsVars, encVars, streamVarsB, mockVars>>

LiveNext == SendMessageLive

SpecLive == LiveInit /\ [][LiveNext]_vars

\* the model identifier the call resolves: the given one or the default
ResolvedModelId ==
    IF IsSome(LastModelId) THEN Unwrap(LastModelId) ELSE get_builtin_models[1].model_id

\* the static model list has an entry for the identifier that declares tool support
DeclaresTools(model_id) ==
    \E i \in DOMAIN get_builtin_models :
       get_builtin_models[i].model_id = model_id /\ get_builtin_models[i].supports_tools

(* C12: when request.send() fails with status 404, send_message returns    *)
(* the kind ModelNotAvailable whatever the response body holds, and the    *)
(* error carries the status code and the request id of the failed response.*)
C12_NotFoundIsModelNotAvailable ==
    ( /\ IsSome(sendResult) /\ IsSome(dispatched)
      /\ ~LastNet.ok /\ LastNet.status_code = Some(404) )
    => /\ ~Unwrap(sendResult).ok
       /\ Unwrap(sendResult).kind = ErrorKind("ModelNotAvailable")
       /\ Unwrap(sendResult).status_code = Some(404)
       /\ Unwrap(sendResult).request_id = LastNet.request_id

\* a 404 whose body holds the monthly-limit marker came back with a request id
C12_Witness ==
    /\ IsSome(sendResult) /\ IsSome(dispatched)
    /\ LastNet.status_code = Some(404)
    /\ LastNet.body = MONTHLY_REQUEST_COUNT
    /\ LastNet.request_id = Some("req-1")
    /\ Unwrap(sendResult).kind = ErrorKind("ModelNotAvailable")
    /\ Unwrap(sendResult).request_id = Some("req-1")

(* C13: a live send_message call with an allow-listed model either hands   *)
(* the network a request with at least one message or fails with           *)
(* MessageConversion; a request with zero messages is never sent.          *)
C13_NoEmptyRequest ==
    (IsSome(sendResult) /\ ResolvedModelId \in AllowList)
    => \/ IsSome(dispatched) /\ Unwrap(dispatched).messages # <<>>
       \/ /\ dispatched = None
          /\ sendResult = Some(SendErr(ErrorKind("MessageConversion"), None, None))

(* C17: a request carries a tool configuration only if the static model    *)
(* list declares tool support for its model; for an allow-listed model     *)
(* without tool support the request is sent without tool configuration     *)
(* and succeeds when the network answers.                                  *)
C17_ToolsOnlyIfSupported ==
    IsSome(sendResult)
    => /\ (IsSome(dispatched) /\ IsSome(Unwrap(dispatched).tool_config))
            => DeclaresTools(Unwrap(dispatched).model_id)
       /\ (ResolvedModelId \in AllowList /\ ~DeclaresTools(ResolvedModelId))
            => /\ IsSome(dispatched)
               /\ Unwrap(dispatched).tool_config = None
               /\ LastNet.ok => Unwrap(sendResult).ok

\* a model without tool support was called with a tool list and the
\* request went out without it
C17_Witness ==
    /\ IsSome(sendResult) /\ IsSome(dispatched)
    /\ LastModelId = Some(NoToolsModel)
    /\ IsSome(LastConversation.user_input_message.user_input_message_context)
    /\ Unwrap(LastConversation.user_input_message.user_input_message_context).tools
         = Some(<<ToolSpec("fs_read", Some("schema"))>>)
    /\ LastNet.ok
    /\ Unwrap(sendResult).ok
    /\ Unwrap(dispatched).tool_config = None

(* C18: the request's service tier is Flex for the tier string "flex",     *)
(* Default for every other string, and absent when no tier is requested;   *)
(* an unrecognized tier string does not fail the request.                  *)
C18_ServiceTierMapping ==
    IsSome(sendResult)
    => LET tier == LastConversation.service_tier IN
       /\ ResolvedModelId \in AllowList => IsSome(dispatched)
       /\ IsSome(dispatched)
            => /\ Unwrap(dispatched).service_tier =
                    IF tier = None THEN None
                    ELSE IF Unwrap(tier) = "flex" THEN Some("ServiceTierType::Flex")
                    ELSE Some("ServiceTierType::Default")
               /\ LastNet.ok => Unwrap(sendResult).ok

\* an unrecognized tier string was requested and the request went out
\* with the Default tier
C18_Witness ==
    /\ IsSome(sendResult) /\ IsSome(dispatched)
    /\ LastConversation.service_tier = Some("priority")
    /\ Unwrap(dispatched).service_tier = Some("ServiceTierType::Default")
    /\ Unwrap(sendResult).ok

----------------------------------------------------------------------------
(* One call of an encoder function of bedrock.rs. The functions are pure:  *)
(* the function called and its arguments are drawn at the start, and each  *)
(* action is the call of one function.                                     *)

\* a text with leading and trailing whitespace around "Hi", and "Hi"
Padded == <<" ", "H", "i", "\n">>
Hi == <<"H", "i">>

\* ChatMessage::UserInputMessage and ChatMessage::AssistantResponseMessage
UserInputMessage(content, user_input_message_context) ==
    [t |-> "UserInputMessage", content |-> content,
     user_input_message_context |-> user_input_message_context, tool_uses |-> None]
AssistantResponseMessage(content, tool_uses) ==
    [t |-> "AssistantResponseMessage", content |-> content,
     user_input_message_context |-> None, tool_uses |-> tool_uses]
\* a ToolUse of an assistant message
ToolUse(tool_use_id, name, input) ==
    [tool_use_id |-> tool_use_id, name |-> name, input |-> input]

\* the entries a history is made of
HistoryEntries ==
    { UserInputMessage(Hello, None),
      UserInputMessage(Blank, None),
      UserInputMessage(Blank, Some(Context(Some(<<ResultA>>), None))),
      UserInputMessage(Padded, Some(Context(Some(<<ResultB, ResultA>>), None))),
      AssistantResponseMessage(Hi, None),
      AssistantResponseMessage(Blank, None),
      AssistantResponseMessage(Blank, Some(<<ToolUse("tool-1", "fs_read", "{}")>>)),
      AssistantResponseMessage(Hi, Some(<<ToolUse("tool-1", "fs_read", "{}"),
                                          ToolUse("tool-2", "fs_write", "{}")>>)) }

Histories ==
    {None} \cup {Some(hist) : hist \in UNION {[1..n -> HistoryEntries] : n \in 0..MaxHistory}}

\* the current turns: a text and a context
UserInputs ==
    { [content |-> content, model_id |-> None, user_input_message_context |-> context] :
      content \in {Hello, Blank, <<>>, Padded},
      context \in { None, Some(Context(None, None)), Some(Context(Some(<<>>), None)),
                    Some(Context(Some(<<ResultA>>), None)),
                    Some(Context(Some(<<ResultA, ResultB>>), None)),
                    Some(Context(Some(<<ResultB, ResultA>>), None)) } }

\* the tools a tool list is made of, and the tool lists
EncoderTools ==
    {ToolSpec("fs_read", Some("schema-r")), ToolSpec("no_schema", None),
     ToolSpec("fs_write", Some("schema-w"))}
EncoderToolLists ==
    {None} \cup {Some(list) : list \in UNION {[1..n -> EncoderTools] : n \in 0..MaxTools}}

\* the model-level and agent-level prompts
ModelPrompts == {None, Some(""), Some("model prompt")}
AgentPrompts == {None, Some(""), Some("agent prompt")}

\* the arguments of one call; the fields a function does not take are None
EncArgs(op, user_input, history, tools, model_system_prompt, agent_prompt) ==
    [op |-> op, user_input |-> user_input, history |-> history, tools |-> tools,
     model_system_prompt |-> model_system_prompt, agent_prompt |-> agent_prompt]

EncInit ==
    /\ StreamInit /\ SendIdle /\ ClsIdle /\ StreamInitB /\ MockIdle
    /\ encArgs \in
         { Some(EncArgs("convert_to_bedrock_messages", user_input, history, None, None, None)) :
             user_input \in UserInputs, history \in Histories }
         \cup { Some(EncArgs("convert_tools_to_bedrock", None, None, tools, None, None)) :
                  tools \in EncoderToolLists }
         \cup { Some(EncArgs("extract_system_prompt", None, None, None,
                             model_system_prompt, agent_prompt)) :
                  model_system_prompt \in ModelPrompts, agent_prompt \in AgentPrompts }
    /\ encResult = None
    /\ encAgain = None

\* the call of convert_to_bedrock_messages
ConvertToBedrockMessages ==
    /\ IsSome(encArgs) /\ encResult = None
    /\ Unwrap(encArgs).op = "convert_to_bedrock_messages"
    /\ encResult' = Some(convert_to_bedrock_messages(Unwrap(encArgs).user_input,
                                                     Unwrap(encArgs).history))
    /\ UNCHANGED <<encArgs, encAgain, streamVars, sendVars, clsVars, streamVarsB, mockVars>>

\* the call of convert_tools_to_bedrock
ConvertToolsToBedrock ==
    /\ IsSome(encArgs) /\ encResult = None
    /\ Unwrap(encArgs).op = "convert_tools_to_bedrock"
    /\ encResult' = Some(convert_tools_to_bedrock(Unwrap(encArgs).tools))
    /\ UNCHANGED <<encArgs, encAgain, streamVars, sendVars, clsVars, streamVarsB, mockVars>>

\* the call of extract_system_prompt
ExtractSystemPrompt ==
    /\ IsSome(encArgs) /\ encResult = None
    /\ Unwrap(encArgs).op = "extract_system_prompt"
    /\ encResult' = Some(extract_system_prompt(Unwrap(encArgs).model_system_prompt,
                                               Unwrap(encArgs).agent_prompt))
    /\ UNCHANGED <<encArgs, encAgain, streamVars, sendVars, clsVars, streamVarsB, mockVars>>

\* a second call of the same function with the same arguments
EncodeAgain ==
    /\ IsSome(encArgs) /\ IsSome(encResult) /\ encAgain = None
    /\ LET a == Unwrap(encArgs) IN
       encAgain' = Some(CASE a.op = "convert_to_bedrock_messages"
                               -> convert_to_bedrock_messages(a.user_input, a.history)
                          [] a.op = "convert_tools_to_bedrock"
                               -> convert_tools_to_bedrock(a.tools)
                          [] a.op = "extract_system_prompt"
                               -> extract_system_prompt(a.model_system_prompt, a.agent_prompt))
    /\ UNCHANGED <<encArgs, encResult, streamVars, sendVars, clsVars, streamVarsB, mockVars>>

EncNext ==
    ConvertToBedrockMessages \/ ConvertToolsToBedrock \/ ExtractSystemPrompt \/ EncodeAgain

SpecEncode == EncInit /\ [][EncNext]_vars

----------------------------------------------------------------------------
(* Reading an encoder call *)

EncCalled(op) == IsSome(encArgs) /\ IsSome(encResult) /\ Unwrap(encArgs).op = op
EncReturned == Unwrap(encResult)

\* the text has a character that is not whitespace
NonBlank(text) == \E i \in 1..Len(text) : ~IsWhitespace(text[i])

\* the tool results of a user entry and the tool uses of an assistant entry
ResultsOf(entry) ==
    IF IsSome(entry.user_input_message_context)
       /\ IsSome(Unwrap(entry.user_input_message_context).tool_results)
    THEN Unwrap(Unwrap(entry.user_input_message_context).tool_results)
    ELSE <<>>
UsesOf(entry) == IF IsSome(entry.tool_uses) THEN Unwrap(entry.tool_uses) ELSE <<>>

\* the entry has usable content: text that is not blank, a tool result or a tool use
Usable(entry) ==
    \/ NonBlank(entry.content)
    \/ entry.t = "UserInputMessage" /\ ResultsOf(entry) # <<>>
    \/ entry.t = "AssistantResponseMessage" /\ UsesOf(entry) # <<>>

\* the history and the current turn convert_to_bedrock_messages was given
GivenHistory == IF IsSome(Unwrap(encArgs).history) THEN Unwrap(Unwrap(encArgs).history) ELSE <<>>
CurrentTurn ==
    UserInputMessage(Unwrap(encArgs).user_input.content,
                     Unwrap(encArgs).user_input.user_input_message_context)

\* the entries the output is expected to hold, in order
Sources ==
    SelectSeq(GivenHistory, Usable) \o (IF Usable(CurrentTurn) THEN <<CurrentTurn>> ELSE <<>>)

\* the number of leading text blocks an entry is encoded with
TextCount(entry) == IF NonBlank(entry.content) THEN 1 ELSE 0

\* reading a wire tool-result block back
DecodeStatus(status) ==
    CASE status = "bedrock::ToolResultStatus::Success" -> "model::ToolResultStatus::Success"
      [] status = "bedrock::ToolResultStatus::Error" -> "model::ToolResultStatus::Error"
DecodeResultContent(item) ==
    CASE item.variant = "bedrock::Text" -> ResultText(item.data)
      [] item.variant = "bedrock::Json" -> ResultJson(item.data)
DecodeToolResult(block) ==
    ToolResult(block.tool_use_id,
               [m \in 1..Len(block.content) |-> DecodeResultContent(block.content[m])],
               DecodeStatus(block.status))

(* C14: convert_to_bedrock_messages does not fail; its output holds one    *)
(* message per history entry with usable content, in the order of the      *)
(* history and with the entry's role and text, followed by the message of  *)
(* the current turn when it has content; entries without usable content    *)
(* are left out.                                                           *)
C14_HistoryFirstCurrentLast ==
    EncCalled("convert_to_bedrock_messages")
    => /\ IsSome(EncReturned)
       /\ LET out == Unwrap(EncReturned) IN
          /\ Len(out) = Len(Sources)
          /\ \A k \in 1..Len(Sources) :
               /\ out[k].role = IF Sources[k].t = "UserInputMessage" THEN "User" ELSE "Assistant"
               /\ Len(out[k].content) =
                    TextCount(Sources[k]) + Len(ResultsOf(Sources[k])) + Len(UsesOf(Sources[k]))
               /\ NonBlank(Sources[k].content)
                    => out[k].content[1] = TextBlock(Sources[k].content)

\* a history whose first entry is blank and whose second is an assistant
\* text was encoded with a current turn: two messages came out
C14_Witness ==
    /\ EncCalled("convert_to_bedrock_messages")
    /\ GivenHistory = <<UserInputMessage(Blank, None), AssistantResponseMessage(Hi, None)>>
    /\ CurrentTurn.content = Hello
    /\ Len(Unwrap(EncReturned)) = 2
    /\ Unwrap(EncReturned)[1].role = "Assistant"
    /\ Unwrap(EncReturned)[2].role = "User"

(* C15: every message convert_to_bedrock_messages puts out has at least    *)
(* one content block and no text block that is empty or whitespace-only;   *)
(* the output has as many messages as there are entries with usable        *)
(* content, and an entry with blank text is encoded with tool blocks only. *)
C15_NoEmptyContent ==
    EncCalled("convert_to_bedrock_messages")
    => LET out == Unwrap(EncReturned) IN
       /\ \A k \in 1..Len(out) :
            /\ out[k].content # <<>>
            /\ \A b \in 1..Len(out[k].content) :
                 out[k].content[b].t = "Text" => NonBlank(out[k].content[b].text)
       /\ Len(out) = Cardinality({i \in DOMAIN GivenHistory : Usable(GivenHistory[i])})
                     + (IF Usable(CurrentTurn) THEN 1 ELSE 0)
       /\ \A k \in 1..Len(out) :
            (k <= Len(Sources) /\ ~NonBlank(Sources[k].content))
            => \A b \in 1..Len(out[k].content) :
                 out[k].content[b].t \in {"ToolResult", "ToolUse"}

\* a blank assistant entry with a tool use and a blank current turn with a
\* tool result were encoded: both messages hold a tool block only
C15_Witness ==
    /\ EncCalled("convert_to_bedrock_messages")
    /\ GivenHistory =
         <<AssistantResponseMessage(Blank, Some(<<ToolUse("tool-1", "fs_read", "{}")>>)),
           AssistantResponseMessage(Blank, None)>>
    /\ CurrentTurn.content = Blank
    /\ ResultsOf(CurrentTurn) = <<ResultA>>
    /\ Len(Unwrap(EncReturned)) = 2
    /\ Len(Unwrap(EncReturned)[1].content) = 1
    /\ Unwrap(EncReturned)[2].content[1].t = "ToolResult"

(* C16: in the message of a user entry (history or current turn) the tool  *)
(* results follow the text block, one tool-result block per result in the  *)
(* order of the results, and reading each block back gives the original    *)
(* tool-use id, status and content blocks (order and variant).             *)
C16_ToolResultRoundTrip ==
    EncCalled("convert_to_bedrock_messages")
    => LET out == Unwrap(EncReturned) IN
       /\ Len(out) = Len(Sources)
       /\ \A k \in 1..Len(Sources) :
            Sources[k].t = "UserInputMessage"
            => LET results == ResultsOf(Sources[k])
                   off == TextCount(Sources[k])
               IN  /\ Len(out[k].content) = off + Len(results)
                   /\ \A r \in 1..Len(results) :
                        /\ out[k].content[off + r].t = "ToolResult"
                        /\ DecodeToolResult(out[k].content[off + r]) = results[r]

\* a current turn with text and two tool results (an Error with a document,
\* a Success with text and document) was encoded after a history entry with
\* a tool result
C16_Witness ==
    /\ EncCalled("convert_to_bedrock_messages")
    /\ GivenHistory = <<UserInputMessage(Blank, Some(Context(Some(<<ResultA>>), None)))>>
    /\ CurrentTurn.content = Padded
    /\ ResultsOf(CurrentTurn) = <<ResultB, ResultA>>
    /\ Len(Unwrap(EncReturned)) = 2
    /\ Len(Unwrap(EncReturned)[2].content) = 3
    /\ Unwrap(EncReturned)[2].content[2].status = "bedrock::ToolResultStatus::Error"

\* the tools of the given list whose schema resolves, by position
Resolvable(list) == {i \in DOMAIN list : list[i].input_schema_json # None}
\* the position in the list of its k-th resolvable tool
KthResolvable(list, k) ==
    CHOOSE i \in Resolvable(list) : Cardinality({j \in Resolvable(list) : j <= i}) = k

(* C19: given a tool list, convert_tools_to_bedrock returns a tool         *)
(* configuration: it holds exactly the tools whose input schema is         *)
(* present, in the order of the list, each with its name and schema.       *)
C19_UnresolvableToolsDropped ==
    (EncCalled("convert_tools_to_bedrock") /\ IsSome(Unwrap(encArgs).tools))
    => LET list == Unwrap(Unwrap(encArgs).tools) IN
       /\ IsSome(EncReturned)
       /\ LET kept == Unwrap(EncReturned).tools IN
          /\ Len(kept) = Cardinality(Resolvable(list))
          /\ \A k \in 1..Len(kept) :
               /\ kept[k].name = list[KthResolvable(list, k)].name
               /\ kept[k].input_schema = Unwrap(list[KthResolvable(list, k)].input_schema_json)

\* a list that starts with a tool without schema was converted: the two
\* other tools are kept in their order
C19_Witness ==
    /\ EncCalled("convert_tools_to_bedrock")
    /\ Unwrap(encArgs).tools =
         Some(<<ToolSpec("no_schema", None), ToolSpec("fs_write", Some("schema-w")),
                ToolSpec("fs_read", Some("schema-r"))>>)
    /\ Len(Unwrap(EncReturned).tools) = 2
    /\ Unwrap(EncReturned).tools[1].name = "fs_write"

(* C20: extract_system_prompt returns no block when both prompts are       *)
(* absent; otherwise one text block per present prompt, the model-level    *)
(* prompt's block before the agent-level prompt's.                         *)
C20_SystemPromptOrder ==
    EncCalled("extract_system_prompt")
    => LET model_system_prompt == Unwrap(encArgs).model_system_prompt
           agent_prompt == Unwrap(encArgs).agent_prompt
       IN  /\ (model_system_prompt = None /\ agent_prompt = None) <=> EncReturned = None
           /\ (model_system_prompt # None /\ agent_prompt = None)
                => EncReturned = Some(<<[t |-> "Text", text |-> model_system_prompt[1]]>>)
           /\ (model_system_prompt = None /\ agent_prompt # None)
                => EncReturned = Some(<<[t |-> "Text", text |-> agent_prompt[1]]>>)
           /\ (model_system_prompt # None /\ agent_prompt # None)
                => EncReturned = Some(<<[t |-> "Text", text |-> model_system_prompt[1]],
                                        [t |-> "Text", text |-> agent_prompt[1]]>>)

\* both prompts were given: two blocks came back, the model prompt first
C20_Witness ==
    /\ EncCalled("extract_system_prompt")
    /\ Unwrap(encArgs).model_system_prompt = Some("model prompt")
    /\ Unwrap(encArgs).agent_prompt = Some("agent prompt")
    /\ Len(Unwrap(EncReturned)) = 2
    /\ Unwrap(EncReturned)[1].text = "model prompt"

(* C24: with empty or absent history, a current turn whose text is not      *)
(* whitespace-only and that has no tool results is encoded as exactly one   *)
(* message, of role User, holding exactly one text block with the text      *)
(* unchanged.                                                               *)
C24_SingleTurn ==
    ( /\ EncCalled("convert_to_bedrock_messages")
      /\ GivenHistory = <<>>
      /\ NonBlank(CurrentTurn.content)
      /\ ResultsOf(CurrentTurn) = <<>> )
    => EncReturned =
         Some(<< [role |-> "User",
                  content |-> <<[t |-> "Text", text |-> Unwrap(encArgs).user_input.content]>>] >>)

\* "Hello" was encoded with an empty history
C24_Witness ==
    /\ EncCalled("convert_to_bedrock_messages")
    /\ Unwrap(encArgs).history = Some(<<>>)
    /\ Unwrap(encArgs).user_input.content = Hello
    /\ Unwrap(encArgs).user_input.user_input_message_context = None
    /\ Len(Unwrap(EncReturned)) = 1
    /\ Unwrap(EncReturned)[1].content = <<TextBlock(Hello)>>

----------------------------------------------------------------------------
(* More claims on the histories of a stream handle *)

\* the wire items recv passes over: an unrecognized event, a metadata event,
\* a block start without tool-use payload, a block delta without payload
PassedOver ==
    {UnknownEv, CBStartOther, CBStartNone, CBDeltaNone} \cup MetadataEvs

(* C25: an unrecognized wire event, a metadata event, a block start without *)
(* tool-use payload and a block delta without payload make recv return      *)
(* nothing, leave current_tool as it was, and recv takes the next wire item *)
(* before it returns.                                                       *)
C25_PassedOverEvents ==
    \A i \in DOMAIN wire :
      wire[i] \in PassedOver
      => /\ \A k \in DOMAIN returnedAt : returnedAt[k] # i
         /\ ToolAfter(i) = toolBefore[i]
         /\ i < Len(wire)
         /\ \E k \in DOMAIN returnedAt : returnedAt[k] > i

\* with a tool open an unrecognized event and a metadata event were passed
\* over, and the stop event of the tool was returned after them
C25_Witness ==
    \E i \in DOMAIN wire : \E j \in DOMAIN wire : \E k \in DOMAIN returned :
      /\ wire[i] = UnknownEv /\ toolBefore[i] # None
      /\ wire[j] \in MetadataEvs /\ toolBefore[j] # None
      /\ returnedAt[k] > i /\ returnedAt[k] > j
      /\ IsStopRet(returned[k])

(* C28: a failure of the underlying stream makes recv return an error       *)
(* value for it (not end-of-stream, not an event), also after events were   *)
(* returned; every value returned comes from a wire item later than the     *)
(* one before it, so nothing is fetched or returned a second time.          *)
C28_StreamFailureIsError ==
    /\ \A i \in DOMAIN wire :
         wire[i] = StreamErr
         => \E k \in DOMAIN returned :
              /\ returnedAt[k] = i
              /\ returned[k] = ErrSmithyBuild
              /\ ~returned[k].ok
    /\ \A k \in 1..(Len(returnedAt) - 1) : returnedAt[k] < returnedAt[k + 1]
    /\ \A k \in DOMAIN returned :
         returned[k] = ErrSmithyBuild => wire[returnedAt[k]] = StreamErr

\* a text event was returned, then the stream failed and recv returned the error
C28_Witness ==
    /\ Len(returned) >= 2
    /\ IsTextRet(returned[1])
    /\ returned[Len(returned)] = ErrSmithyBuild
    /\ wire[Len(wire)] = StreamErr

(* C29: when a message stop is taken while a tool is open, the tracing      *)
(* records of that pass differ from the records of a message stop taken     *)
(* with no tool open.                                                       *)
C29_OpenToolAtStopLogged ==
    \A i \in DOMAIN wire :
      (wire[i] = MsgStop /\ toolBefore[i] # None)
      => MessageStopLog(wire[i], toolBefore[i]) # MessageStopLog(wire[i], None)

----------------------------------------------------------------------------
(* Two stream handles, each of its own conversation, pulled in any          *)
(* interleaving. Each handle is a SendMessageOutputBedrock value of its     *)
(* own: recv takes &mut self and the module has no static.                  *)

\* the wire items the two handles are fed
PairItems == ToolStarts \cup {CBDeltaTool("x"), CBDeltaText("a"), CBStop, MsgStop}

\* mutant of OwnStateB: the second handle reads the first handle's current_tool
OwnStateB_SharedTool == [current_tool |-> current_tool, metadata |-> metadataB]

\* self of the second handle's recv
OwnStateB == [current_tool |-> current_toolB, metadata |-> metadataB]

\* one call of recv on the first handle
PairRecvA ==
    \E n \in 1..(MaxPairWire - Len(wire) - Len(wireB)) :
      \E items \in [1..n -> PairItems] :
        LET r == RecvLoop(items, 1, current_tool, metadata, <<>>) IN
        /\ StreamOk(wire \o items)
        /\ r.used = n
        /\ IsSome(r.ret)
        /\ wire' = wire \o items
        /\ current_tool' = r.tool
        /\ metadata' = r.meta
        /\ returned' = Append(returned, Unwrap(r.ret))
        /\ returnedAt' = Append(returnedAt, Len(wire) + n)
        /\ toolBefore' = toolBefore \o r.before
        /\ UNCHANGED <<streamVarsB, sendVars, clsVars, encVars, mockVars>>

\* one call of recv on the second handle
PairRecvB ==
    \E n \in 1..(MaxPairWire - Len(wire) - Len(wireB)) :
      \E items \in [1..n -> PairItems] :
        LET r == RecvLoop(items, 1, OwnStateB.current_tool, OwnStateB.metadata, <<>>) IN
        /\ StreamOk(wireB \o items)
        /\ r.used = n
        /\ IsSome(r.ret)
        /\ wireB' = wireB \o items
        /\ current_toolB' = r.tool
        /\ metadataB' = r.meta
        /\ returnedB' = Append(returnedB, Unwrap(r.ret))
        /\ UNCHANGED <<streamVars, sendVars, clsVars, encVars, mockVars>>

PairNext == PairRecvA \/ PairRecvB

SpecPair == Init /\ [][PairNext]_vars

\* a handle pulled alone over the wire w: the values its recv calls return
\* and the current_tool it ends with
RECURSIVE SoloRun(_, _, _, _)
SoloRun(w, tool, meta, rets) ==
    IF w = <<>> THEN [returned |-> rets, current_tool |-> tool]
    ELSE LET p == RecvPass(Head(w), tool, meta) IN
         SoloRun(Tail(w), p.tool, p.meta,
                 IF IsSome(p.ret) THEN Append(rets, Unwrap(p.ret)) ELSE rets)
Solo(w) == SoloRun(w, None, None, <<>>)

(* C26: whatever the interleaving of the pulls on two stream handles, each  *)
(* handle has returned the values, and holds the tool-use state, that it    *)
(* has when it is pulled alone over its own wire items.                     *)
C26_HandlesIndependent ==
    /\ returned = Solo(wire).returned
    /\ current_tool = Solo(wire).current_tool
    /\ returnedB = Solo(wireB).returned
    /\ current_toolB = Solo(wireB).current_tool

\* the first handle has tool t1 open and returned a delta for it, the second
\* has opened its tool t2 and returned the stop event for it
C26_Witness ==
    /\ wire = <<CBStartTool("t1", "n1"), CBDeltaTool("x")>>
    /\ wireB = <<CBStartTool("t2", "n2"), CBStop>>
    /\ current_tool = Some(ToolUseState("t1", "n1"))
    /\ current_toolB = None
    /\ returned[2] = OkSome(ToolUseEvent("t1", "n1", Some("x"), None))
    /\ returnedB[2] = OkSome(ToolUseEvent("t2", "n2", None, Some(TRUE)))

----------------------------------------------------------------------------
(* The mock backend (api_client/mod.rs): set_mock_output builds the queue   *)
(* of fixture responses, send_message takes the next response under the     *)
(* Mutex, and SendMessageOutput::Mock's recv pops its events. The callers   *)
(* hold clones of one ApiClient, which share the queue through the Arc.     *)

\* serde_json values of a fixture: a string item, a tool-use object, and the
\* values of its "args" field (a text is a sequence of characters)
JsonString(text) == [kind |-> "String", text |-> text]
JsonToolUse(tool_use_id, name, args) ==
    [kind |-> "Object", tool_use_id |-> tool_use_id, name |-> name, args |-> args]
ArgsString(chars) == [kind |-> "String", chars |-> chars, fields |-> <<>>]
\* an object of string fields; fields is a sequence of <<key, value>>
ArgsObject(fields) == [kind |-> "Object", chars |-> <<>>, fields |-> fields]

Quoted(chars) == <<"\"">> \o chars \o <<"\"">>

\* the members of a serialized object, separated by commas
RECURSIVE Members(_)
Members(fields) ==
    IF fields = <<>> THEN <<>>
    ELSE Quoted(Head(fields)[1]) \o <<":">> \o Quoted(Head(fields)[2])
         \o (IF Tail(fields) = <<>> THEN <<>> ELSE <<",">> \o Members(Tail(fields)))

\* serde_json::Value::to_string: the compact JSON text of the value
to_string(value) ==
    IF value.kind = "String" THEN Quoted(value.chars)
    ELSE <<"{">> \o Members(value.fields) \o <<"}">>

\* mutant of split_tool_use_event: the args text is not split, the second
\* fragment is empty
split_tool_use_event_NoSplit(value) ==
    LET args_str == to_string(value.args) IN
    << ToolUseEvent(value.tool_use_id, value.name, None, None),
       ToolUseEvent(value.tool_use_id, value.name, Some(args_str), None),
       ToolUseEvent(value.tool_use_id, value.name, Some(<<>>), None),
       ToolUseEvent(value.tool_use_id, value.name, None, Some(TRUE)) >>

\* split_tool_use_event
split_tool_use_event(value) ==
    LET args_str == to_string(value.args)
        split_point == Len(args_str) \div 2
    IN  << ToolUseEvent(value.tool_use_id, value.name, None, None),
           ToolUseEvent(value.tool_use_id, value.name,
                        Some(SubSeq(args_str, 1, split_point)), None),
           ToolUseEvent(value.tool_use_id, value.name,
                        Some(SubSeq(args_str, split_point + 1, Len(args_str))), None),
           ToolUseEvent(value.tool_use_id, value.name, None, Some(TRUE)) >>

\* the inner loop of set_mock_output: the stream of one response
RECURSIVE MockStream(_)
MockStream(response) ==
    IF response = <<>> THEN <<>>
    ELSE (IF Head(response).kind = "String"
          THEN <<AssistantResponseEvent(Head(response).text)>>
          ELSE split_tool_use_event(Head(response)))
         \o MockStream(Tail(response))

\* set_mock_output: the queue it stores, one stream per response
set_mock_output(json) == [i \in 1..Len(json) |-> MockStream(json[i])]

\* the fixture of test_mock, a fixture with tool uses and a second response,
\* and one with an empty response
FixtureHello ==
    << << JsonString("Hello!"), JsonString(" How can I"), JsonString(" assist you today?") >> >>
FixtureTools ==
    << << JsonString("Hi"),
          JsonToolUse("t1", "fs_read", ArgsObject(<< <<<<"p">>, <<"a">>>> >>)) >>,
       << JsonString("Bye") >> >>
FixtureArgs ==
    << << >>,
       << JsonToolUse("t2", "fs_write", ArgsString(<<"a", "b", "c">>)), JsonString("ok") >>,
       << JsonToolUse("t3", "ls", ArgsObject(<<>>)) >> >>
Fixtures == {FixtureHello, FixtureTools, FixtureArgs}

\* the callers: two tasks, each with a clone of the client
Callers == {"a", "b"}

\* mutant of CanLock: the queue is taken without waiting for the Mutex
CanLock_NoMutex == TRUE

\* Mutex::lock returns when no caller holds the guard
CanLock == mock_lock = None

\* mutant of Pop: the first element is taken
Pop_Front(vec) ==
    IF vec = <<>> THEN [ret |-> None, vec |-> vec]
    ELSE [ret |-> Some(vec[1]), vec |-> SubSeq(vec, 2, Len(vec))]

\* Vec::pop: the last element, if any, is removed and returned
Pop(vec) ==
    IF vec = <<>> THEN [ret |-> None, vec |-> vec]
    ELSE [ret |-> Some(vec[Len(vec)]), vec |-> SubSeq(vec, 1, Len(vec) - 1)]

\* one send_message call of a caller, as the caller sees it: the position in
\* the queue of the response it was handed (0 when the queue had none left
\* or the call failed), its number among the calls that returned Ok so far
\* (0 when it failed), what send_message returned, the events recv has
\* returned since, and whether recv has returned end-of-stream
Call(idx, result) ==
    LET succeeded == UNION { {<<c, k>> : k \in {k \in DOMAIN caller[c].calls :
                                                  caller[c].calls[k].result.ok}} :
                             c \in Callers } IN
    [idx |-> idx, nth |-> IF result.ok THEN Cardinality(succeeded) + 1 ELSE 0,
     result |-> result, received |-> <<>>, ended |-> FALSE]

\* a caller outside send_message, before its first call
CallerIdle == [pc |-> "idle", next |-> None, idx |-> 0, output |-> None, calls |-> <<>>]

TotalCalls == LET n(c) == Len(caller[c].calls) + (IF caller[c].pc = "idle" THEN 0 ELSE 1) IN
              n("a") + n("b")

\* ApiClient::new and its clones: no mock installed yet
MockInit ==
    /\ StreamInit /\ SendIdle /\ ClsIdle /\ EncIdle /\ StreamInitB
    /\ mock_json = None
    /\ mock_seeded = None
    /\ mock_lock = None
    /\ caller = [c \in Callers |-> CallerIdle]

\* set_mock_output(json), before any call
SetMockOutput ==
    /\ mock_json = None
    /\ \E json \in Fixtures :
         /\ mock_json' = Some(json)
         /\ mock_seeded' = Some(set_mock_output(json))
         /\ mock_client' = Some(set_mock_output(json))
    /\ UNCHANGED <<mock_lock, caller, dispatched, sendArgs, sendResult,
                   streamVars, streamVarsB, clsVars, encVars>>

\* mutant of MockSendStart: a rejected call has taken the front of the queue
MockSendStart_RejectConsumes(c) ==
    /\ IsSome(mock_client)
    /\ caller[c].pc = "idle"
    /\ TotalCalls < MaxCalls
    /\ \E model_id \in {get_default_model.model_id, UnlistedModel} :
         IF validate_model_id(model_id)
         THEN /\ caller' = [caller EXCEPT ![c].pc = "lock"]
              /\ mock_client' = mock_client
         ELSE /\ caller' = [caller EXCEPT
                   ![c].output = None,
                   ![c].calls = Append(@, Call(0, SendErr(ErrorKind("InvalidModel"), None, None)))]
              /\ mock_client' = Some(IF Unwrap(mock_client) = <<>> THEN <<>>
                                     ELSE Tail(Unwrap(mock_client)))
    /\ UNCHANGED <<mock_json, mock_seeded, mock_lock, dispatched, sendArgs, sendResult,
                   streamVars, streamVarsB, clsVars, encVars>>

\* send_message up to the mock branch: the model id is validated
MockSendStart(c) ==
    /\ IsSome(mock_client)
    /\ caller[c].pc = "idle"
    /\ TotalCalls < MaxCalls
    /\ \E model_id \in {get_default_model.model_id, UnlistedModel} :
         IF validate_model_id(model_id)
         THEN caller' = [caller EXCEPT ![c].pc = "lock"]
         ELSE caller' = [caller EXCEPT
                ![c].output = None,
                ![c].calls = Append(@, Call(0, SendErr(ErrorKind("InvalidModel"), None, None)))]
    /\ UNCHANGED <<mock_json, mock_seeded, mock_lock, sendVars,
                   streamVars, streamVarsB, clsVars, encVars>>

\* client.lock()
MockLock(c) ==
    /\ caller[c].pc = "lock"
    /\ CanLock
    /\ mock_lock' = Some(c)
    /\ caller' = [caller EXCEPT ![c].pc = "next"]
    /\ UNCHANGED <<mock_json, mock_seeded, sendVars, streamVars, streamVarsB, clsVars, encVars>>

\* IntoIter::next, first half: the element at the front is read
MockNextRead(c) ==
    /\ caller[c].pc = "next"
    /\ LET queue == Unwrap(mock_client) IN
       caller' = [caller EXCEPT
         ![c].pc = "advance",
         ![c].next = IF queue = <<>> THEN None ELSE Some(Head(queue)),
         ![c].idx = IF queue = <<>> THEN 0 ELSE Len(Unwrap(mock_seeded)) - Len(queue) + 1]
    /\ UNCHANGED <<mock_json, mock_seeded, mock_lock, sendVars,
                   streamVars, streamVarsB, clsVars, encVars>>

\* mutant of IntoIterAdvance: the iterator stays on the element it read
IntoIterAdvance_Stuck(queue) == queue

\* vec::IntoIter::next moves past the element it returns
IntoIterAdvance(queue) == IF queue = <<>> THEN queue ELSE Tail(queue)

\* IntoIter::next, second half, and the rest of the mock branch: the iterator
\* advances, the guard is dropped, the events are reversed and returned
MockNextAdvance(c) ==
    /\ caller[c].pc = "advance"
    /\ LET queue == Unwrap(mock_client)
           new_events == IF IsSome(caller[c].next) THEN Unwrap(caller[c].next) ELSE <<>>
       IN  /\ mock_client' = Some(IntoIterAdvance(queue))
           /\ mock_lock' = None
           /\ caller' = [caller EXCEPT
                ![c].pc = "idle",
                ![c].next = None,
                ![c].idx = 0,
                ![c].output = Some(Reverse(new_events)),
                ![c].calls = Append(@, Call(caller[c].idx, SendOkMock(Reverse(new_events))))]
    /\ UNCHANGED <<mock_json, mock_seeded, dispatched, sendArgs, sendResult,
                   streamVars, streamVarsB, clsVars, encVars>>

\* SendMessageOutput::recv on the Mock variant, until it has returned
\* end-of-stream once
MockRecv(c) ==
    /\ caller[c].pc = "idle"
    /\ IsSome(caller[c].output)
    /\ ~caller[c].calls[Len(caller[c].calls)].ended
    /\ LET popped == Pop(Unwrap(caller[c].output))
           last == Len(caller[c].calls)
       IN  caller' = [caller EXCEPT
             ![c].output = Some(popped.vec),
             ![c].calls[last].received =
                 IF IsSome(popped.ret) THEN Append(@, Unwrap(popped.ret)) ELSE @,
             ![c].calls[last].ended = ~IsSome(popped.ret)]
    /\ UNCHANGED <<mock_json, mock_seeded, mock_lock, sendVars,
                   streamVars, streamVarsB, clsVars, encVars>>

MockNext ==
    \/ SetMockOutput
    \/ \E c \in Callers :
         \/ MockSendStart(c)
         \/ MockLock(c)
         \/ MockNextRead(c)
         \/ MockNextAdvance(c)
         \/ MockRecv(c)

SpecMock == MockInit /\ [][MockNext]_vars

----------------------------------------------------------------------------
(* Reading the calls on the mock backend *)

\* the calls made so far, as <<caller, number of the call>>
CallIds == {<<c, k>> : c \in Callers, k \in 1..MaxCalls} \cap
           {ck \in Callers \X (1..MaxCalls) : ck[2] <= Len(caller[ck[1]].calls)}
CallOf(ck) == caller[ck[1]].calls[ck[2]]
\* the calls that were handed a fixture response
Handed == {ck \in CallIds : CallOf(ck).idx > 0}
\* the events of the fixture response a call was handed, in fixture order
ResponseOf(ck) == Unwrap(mock_seeded)[CallOf(ck).idx]

Width(item) == IF item.kind = "String" THEN 1 ELSE 4
RECURSIVE Offset(_, _)
Offset(response, j) ==
    IF j <= 1 THEN 0 ELSE Offset(response, j - 1) + Width(response[j - 1])

(* C23: set_mock_output builds one stream per fixture response, in fixture  *)
(* order; in it every string item stands as one AssistantResponseEvent with *)
(* that text and every object item as four consecutive ToolUseEvents with   *)
(* its id and name: a start, two input fragments that concatenate to the    *)
(* serialized args and of which the first has floor(length / 2) characters, *)
(* and a stop; the items keep their order.                                  *)
C23_SetMockOutput ==
    IsSome(mock_json)
    => LET json == Unwrap(mock_json)
           queue == Unwrap(mock_seeded)
       IN
       /\ Len(queue) = Len(json)
       /\ \A i \in 1..Len(json) :
            /\ Len(queue[i]) = Offset(json[i], Len(json[i]) + 1)
            /\ \A j \in 1..Len(json[i]) :
                 LET item == json[i][j]
                     at == Offset(json[i], j)
                     ev(m) == queue[i][at + m]
                 IN  IF item.kind = "String"
                     THEN ev(1) = [t |-> "AssistantResponseEvent", content |-> item.text]
                     ELSE /\ \A m \in 1..4 :
                               /\ ev(m).t = "ToolUseEvent"
                               /\ ev(m).tool_use_id = item.tool_use_id
                               /\ ev(m).name = item.name
                          /\ ev(1).input = None /\ ev(1).stop = None
                          /\ ev(2).input # None /\ ev(2).stop = None
                          /\ ev(3).input # None /\ ev(3).stop = None
                          /\ ev(2).input[1] \o ev(3).input[1] = to_string(item.args)
                          /\ Len(ev(2).input[1]) = Len(to_string(item.args)) \div 2
                          /\ ev(4).input = None /\ ev(4).stop = Some(TRUE)

\* the fixture with the args {"p":"a"} was installed: its nine characters
\* are split after the fourth
C23_Witness ==
    /\ mock_json = Some(FixtureTools)
    /\ Len(Unwrap(mock_seeded)[1]) = 5
    /\ Unwrap(mock_seeded)[1][3].input = Some(<<"{", "\"", "p", "\"">>)
    /\ Unwrap(mock_seeded)[1][4].input = Some(<<":", "\"", "a", "\"", "}">>)
    /\ Unwrap(mock_seeded)[2] = <<AssistantResponseEvent("Bye")>>

(* C27: with callers running send_message concurrently on one mock queue,   *)
(* no fixture response is handed to two calls, the responses are handed in  *)
(* queue order without a gap (a call finds the queue empty only when every  *)
(* response was handed), and a call's stream holds the events of the        *)
(* response it was handed and no others.                                    *)
C27_MockQueueExclusive ==
    IsSome(mock_seeded)
    => /\ \A x \in Handed : \A y \in Handed : x # y => CallOf(x).idx # CallOf(y).idx
       /\ {CallOf(ck).idx : ck \in Handed} = 1..Cardinality(Handed)
       /\ Len(Unwrap(mock_client)) = Len(Unwrap(mock_seeded)) - Cardinality(Handed)
       /\ \A ck \in CallIds :
            (CallOf(ck).idx = 0 /\ CallOf(ck).result.ok)
            => /\ Cardinality(Handed) = Len(Unwrap(mock_seeded))
               /\ CallOf(ck).result.events = <<>>
       /\ \A ck \in Handed :
            /\ CallOf(ck).result = SendOkMock(Reverse(ResponseOf(ck)))
            /\ Len(CallOf(ck).received) <= Len(ResponseOf(ck))
            /\ \A k \in 1..Len(CallOf(ck).received) :
                 \E m \in 1..Len(ResponseOf(ck)) : CallOf(ck).received[k] = ResponseOf(ck)[m]

\* caller a was handed the first response and has received an event of it;
\* it is in send_message again and waits for the Mutex, which caller b
\* holds while it takes the second response
C27_Witness ==
    /\ mock_json = Some(FixtureTools)
    /\ Len(caller["a"].calls) = 1
    /\ caller["a"].calls[1].idx = 1
    /\ caller["a"].calls[1].received = <<AssistantResponseEvent("Hi")>>
    /\ caller["a"].pc = "lock"
    /\ mock_lock = Some("b")
    /\ caller["b"].pc = "advance"
    /\ caller["b"].idx = 2

(* C30 as the spec states it: the events of a fixture response reach the    *)
(* caller in reverse of the order in which they were put into the fixture.  *)
C30_ReverseOfInsertion ==
    \A ck \in Handed :
      \A k \in 1..Len(CallOf(ck).received) :
        CallOf(ck).received[k] = ResponseOf(ck)[Len(ResponseOf(ck)) + 1 - k]

(* C30: the events of a fixture response reach the caller in the order in   *)
(* which they were put into the fixture: the k-th recv of a call returns    *)
(* the k-th event, and the handle of a caller's latest call holds the       *)
(* events not yet returned in reverse order, the next one last.             *)
C30_InsertionOrder ==
    /\ \A ck \in Handed :
         \A k \in 1..Len(CallOf(ck).received) : CallOf(ck).received[k] = ResponseOf(ck)[k]
    /\ \A c \in Callers :
         (caller[c].calls # <<>> /\ <<c, Len(caller[c].calls)>> \in Handed)
         => LET ck == <<c, Len(caller[c].calls)>>
                n == Len(ResponseOf(ck))
                done == Len(CallOf(ck).received)
            IN  caller[c].output =
                  Some([m \in 1..(n - done) |-> ResponseOf(ck)[n + 1 - m]])

\* the first event of the three of test_mock's fixture was returned, two
\* are still in the handle
C30_Witness ==
    /\ mock_json = Some(FixtureHello)
    /\ \E c \in Callers :
         /\ Len(caller[c].calls) = 1
         /\ caller[c].calls[1].received = <<AssistantResponseEvent("Hello!")>>
         /\ caller[c].output = Some(<<AssistantResponseEvent(" assist you today?"),
                                      AssistantResponseEvent(" How can I")>>)

----------------------------------------------------------------------------
(* The tool-use state and the metadata of a stream handle *)

\* SendMessageOutputBedrock::get_metadata
get_metadata == metadata

\* SendMessageOutput::get_bedrock_metadata, by variant of the output
get_bedrock_metadata(variant) == IF variant = "Bedrock" THEN get_metadata ELSE None

\* before the i-th wire item a tool-use block start was taken and no block
\* stop since
OpenBefore(i) ==
    \E j \in 1..(i - 1) :
      /\ j \in DOMAIN wire
      /\ IsToolStart(wire[j])
      /\ \A m \in (j + 1)..(i - 1) : wire[m] # CBStop

\* the position of the last tool-use block start before the i-th wire item
\* (0 when there is none)
LastStartBefore(i) ==
    LET starts == {j \in 1..(i - 1) : j \in DOMAIN wire /\ IsToolStart(wire[j])} IN
    IF starts = {} THEN 0 ELSE CHOOSE j \in starts : \A m \in starts : m <= j

(* C34: current_tool is Some exactly when a tool-use block start was taken  *)
(* and no block stop since; a block stop taken while Idle returns nothing   *)
(* and leaves Idle, a block stop taken while Open leaves Idle; every        *)
(* ToolUseEvent with an input fragment or a stop flag carries the id and    *)
(* name of the last tool-use block start before it.                         *)
C34_OpenBetweenStartAndStop ==
    /\ \A i \in DOMAIN wire : (toolBefore[i] # None) <=> OpenBefore(i)
    /\ (current_tool # None) <=> OpenBefore(Len(wire) + 1)
    /\ \A i \in DOMAIN wire :
         wire[i] = CBStop
         => /\ ToolAfter(i) = None
            /\ toolBefore[i] = None => \A k \in DOMAIN returnedAt : returnedAt[k] # i
    /\ \A k \in DOMAIN returned :
         (IsToolRet(returned[k])
            /\ (Unwrap(returned[k].ev).input # None \/ Unwrap(returned[k].ev).stop # None))
         => LET j == LastStartBefore(returnedAt[k]) IN
            /\ j > 0
            /\ Unwrap(returned[k].ev).tool_use_id = Unwrap(wire[j].payload).tool_use_id
            /\ Unwrap(returned[k].ev).name = Unwrap(wire[j].payload).name

\* a block stop was taken while Idle, then a tool was opened, fed and closed
C34_Witness ==
    /\ Len(wire) = 4
    /\ wire[1] = CBStop /\ toolBefore[1] = None
    /\ IsToolStart(wire[2])
    /\ IsToolDelta(wire[3])
    /\ wire[4] = CBStop /\ toolBefore[4] # None
    /\ current_tool = None
    /\ Len(returned) = 3

(* C35: when the underlying stream ends (it delivers Ok(None)), recv        *)
(* returns end-of-stream for it, not an error and not an event, also with   *)
(* a tool open; the tool is not closed and no stop event is returned.       *)
C35_StreamNoneEnds ==
    \A i \in DOMAIN wire :
      wire[i] = StreamNone
      => /\ \E k \in DOMAIN returned :
              /\ returnedAt[k] = i
              /\ returned[k].ok
              /\ returned[k].ev = None
         /\ ToolAfter(i) = toolBefore[i]
         /\ \A k \in DOMAIN returned : returnedAt[k] = i => ~IsStopRet(returned[k])

\* the underlying stream ended with a tool open and without a message stop
C35_Witness ==
    \E i \in DOMAIN wire :
      /\ wire[i] = StreamNone
      /\ toolBefore[i] # None
      /\ \A j \in 1..i : wire[j] # MsgStop
      /\ returned[Len(returned)] = OkNone

\* the data of the last metadata item among the first n wire items
LastMetadata(n) ==
    LET at == {j \in 1..n : wire[j].kind = "Metadata"} IN
    IF at = {} THEN None
    ELSE Some(Unwrap(wire[CHOOSE j \in at : \A m \in at : m <= j].payload).data)

(* C36: get_metadata is the last metadata event among the wire items recv   *)
(* has taken, and nothing when it has taken none; for another variant than  *)
(* Bedrock get_bedrock_metadata is nothing. A recv that returns for a       *)
(* message stop has taken no item after it, so right after it get_metadata  *)
(* is the last metadata event before the message stop.                      *)
C36_MetadataIsLastConsumed ==
    /\ get_metadata = LastMetadata(Len(wire))
    /\ get_bedrock_metadata("Bedrock") = LastMetadata(Len(wire))
    /\ \A variant \in {"Codewhisperer", "QDeveloper", "Mock"} :
         get_bedrock_metadata(variant) = None
    /\ (returnedAt # <<>> /\ wire[Len(wire)] = MsgStop)
         => /\ returnedAt[Len(returnedAt)] = Len(wire)
            /\ get_metadata = LastMetadata(Len(wire) - 1)

\* two metadata events were taken, the second is kept; then the message
\* stop was returned
C36_Witness ==
    /\ Len(wire) = 3
    /\ wire[1] = MetadataEv("m1")
    /\ wire[2] = MetadataEv("m2")
    /\ wire[3] = MsgStop
    /\ get_metadata = Some("m2")
    /\ returned = <<OkNone>>

(* C37: every recv call takes at least one wire item, so there are never    *)
(* more returned values than wire items taken; and the recv call that       *)
(* takes a message stop, the end of the underlying stream or a stream       *)
(* error returns on that item, with end-of-stream or the error: a caller    *)
(* pulling over a finite wire that ends so gets there within as many calls  *)
(* as the wire has items.                                                   *)
C37_RecvTerminates ==
    /\ Len(returned) <= Len(wire)
    /\ \A k \in DOMAIN returnedAt : k <= returnedAt[k]
    /\ \A k \in 1..(Len(returnedAt) - 1) : returnedAt[k + 1] - returnedAt[k] >= 1
    /\ \A i \in DOMAIN wire :
         wire[i] \in {MsgStop, StreamNone, StreamErr}
         => \E k \in 1..i :
              /\ k \in DOMAIN returned
              /\ returnedAt[k] = i
              /\ returned[k] \in {OkNone, ErrSmithyBuild}

\* three items were passed over by one recv call that returned on the
\* message stop
C37_Witness ==
    /\ Len(wire) = 4
    /\ wire[4] = MsgStop
    /\ returned = <<OkNone>>
    /\ returnedAt = <<4>>

----------------------------------------------------------------------------
(* The default model of send_message *)

(* C38: send_message called with a turn that carries no model identifier    *)
(* uses the first entry of the static model list; that identifier is on     *)
(* the allow-list, so the call is never rejected with InvalidModel, and a   *)
(* request handed to the network names that model.                          *)
C38_DefaultModelAccepted ==
    (IsSome(sendArgs) /\ IsSome(sendResult) /\ LastModelId = None)
    => /\ get_builtin_models[1].model_id \in AllowList
       /\ Unwrap(sendResult).kind # ErrorKind("InvalidModel")
       /\ IsSome(dispatched)
            => Unwrap(dispatched).model_id = get_builtin_models[1].model_id
       /\ (mock_client = None /\ LastConversation.user_input_message.content = Hello)
            => IsSome(dispatched)

\* a live client was called without a model identifier and the request went
\* out naming the first model of the list
C38_Witness ==
    /\ IsSome(sendArgs)
    /\ mock_client = None
    /\ LastModelId = None
    /\ LastNet.ok
    /\ sendResult = Some(SendOkBedrock)
    /\ IsSome(dispatched)
    /\ Unwrap(dispatched).model_id = "openai.gpt-oss-120b-1:0"

----------------------------------------------------------------------------
(* The mock queue over a series of calls *)

\* the calls for which send_message returned Ok
Succeeded == {ck \in CallIds : CallOf(ck).result.ok}

(* C31: with n fixture responses installed, the k-th send_message that      *)
(* returns Ok (k <= n) is handed the k-th response: its stream holds as     *)
(* many events as that response, recv returns them and, once it has         *)
(* returned end-of-stream, all of them; every such call takes one response  *)
(* off the queue. A send_message after the n-th returns Ok with an empty    *)
(* stream, from which recv returns no event but end-of-stream.              *)
C31_KthSendKthResponse ==
    IsSome(mock_seeded)
    => LET seeded == Unwrap(mock_seeded)
           n == Len(seeded)
       IN
       /\ \A ck \in Succeeded :
            LET call == CallOf(ck)
                k == call.nth
            IN  /\ call.result.variant = "Mock"
                /\ IF k <= n
                   THEN /\ call.idx = k
                        /\ Len(call.result.events) = Len(seeded[k])
                        /\ Len(call.received) <= Len(seeded[k])
                        /\ call.received = SubSeq(seeded[k], 1, Len(call.received))
                        /\ call.ended => call.received = seeded[k]
                   ELSE /\ call.idx = 0
                        /\ call.result.events = <<>>
                        /\ call.received = <<>>
       /\ {CallOf(ck).nth : ck \in Succeeded} = 1..Cardinality(Succeeded)
       /\ Len(Unwrap(mock_client)) =
            IF Cardinality(Succeeded) <= n THEN n - Cardinality(Succeeded) ELSE 0

\* the one response of test_mock's fixture was delivered to the first call;
\* the second call returned Ok and its first recv returned end-of-stream
C31_Witness ==
    /\ mock_json = Some(FixtureHello)
    /\ \E x \in Succeeded, y \in Succeeded :
         /\ CallOf(x).nth = 1
         /\ CallOf(x).ended
         /\ Len(CallOf(x).received) = 3
         /\ CallOf(y).nth = 2
         /\ CallOf(y).result = SendOkMock(<<>>)
         /\ CallOf(y).ended
         /\ CallOf(y).received = <<>>

\* in this step a send_message call of caller c returned InvalidModel
Rejected(c) ==
    /\ Len(caller'[c].calls) = Len(caller[c].calls) + 1
    /\ caller'[c].calls[Len(caller'[c].calls)].result.kind = ErrorKind("InvalidModel")

(* C32: a send_message call that returns InvalidModel leaves the mock       *)
(* queue and its Mutex as they were, so the response a later accepted call  *)
(* is handed depends only on the number of calls that returned Ok before    *)
(* it, not on the rejected calls.                                           *)
C32_RejectionLeavesQueue ==
    /\ [][\A c \in Callers :
            Rejected(c) => /\ mock_client' = mock_client
                           /\ mock_lock' = mock_lock
                           /\ mock_seeded' = mock_seeded]_vars
    /\ [](\A ck \in Handed : CallOf(ck).idx = CallOf(ck).nth)

\* a caller's first call was rejected and its second call was handed the
\* first response and has received it to the end
C32_Witness ==
    /\ mock_json = Some(FixtureTools)
    /\ \E c \in Callers :
         /\ Len(caller[c].calls) = 2
         /\ caller[c].calls[1].result.kind = ErrorKind("InvalidModel")
         /\ caller[c].calls[2].idx = 1
         /\ caller[c].calls[2].ended
         /\ Len(caller[c].calls[2].received) = 5
         /\ Len(Unwrap(mock_client)) = 1

----------------------------------------------------------------------------
(* The request id of an output *)

\* the inherent SendMessageOutput::request_id
SendMessageOutput_request_id(output) ==
    IF output.variant = "Mock" THEN None ELSE output.request_id

\* <SendMessageOutput as RequestId>::request_id
RequestId_request_id(output) ==
    IF output.variant = "Mock" THEN Some("<mock-request-id>") ELSE output.request_id

(* C33: for the output of every send_message call that returned Ok, the     *)
(* inherent request_id and the request_id of the RequestId trait return     *)
(* the same value.                                                          *)
C33_RequestIdAccessorsAgree ==
    \A ck \in Succeeded :
      SendMessageOutput_request_id(CallOf(ck).result) = RequestId_request_id(CallOf(ck).result)

====
